---- MODULE Spec2Model ----
(***************************************************************************)
(* Model of amplifier-foundation: the Bundle composition algebra           *)
(* (bundle.py) and the BundleRegistry load pipeline (registry.py).         *)
(*                                                                         *)
(* Values.  Python strings are TLA+ strings; None is the string NoneVal.   *)
(* A dynamically typed config value is a tagged record built by S (a       *)
(* scalar leaf) or M (a mapping from string keys to config values).  A     *)
(* Python dict is a function with a finite string domain, a list is a      *)
(* sequence.  A context key "ns:key" is the sequence of its ':'-separated  *)
(* segments, so `":" in key` is Len(key) > 1.                              *)
(***************************************************************************)
EXTENDS Integers, Sequences, FiniteSets, TLC

NoneVal == "<None>"

\* A filesystem path is the sequence of its segments; None is NoPath.
NoPath == <<"<None>">>

EmptyMap == <<>>

S(s) == [kind |-> "s", s |-> s, m |-> EmptyMap]

M(m) == [kind |-> "m", s |-> "", m |-> m]

IsMap(v) == v.kind = "m"

\* A bundle reference string: a file URI "file://<path>[#subdirectory=<sub>]",
\* a plain name, or "namespace:rel/path"; None is NoRef.
Ref(kind, name, path, sub) == [kind |-> kind, name |-> name, path |-> path, sub |-> sub]

FileURI(path) == Ref("file", "", path, <<>>)

SubdirURI(path, sub) == Ref("file", "", path, sub)

PlainName(n) == Ref("name", n, <<>>, <<>>)

NsPath(ns, rel) == Ref("ns", ns, rel, <<>>)

NoRef == Ref("none", "", <<>>, <<>>)

\* Python truthiness of an optional string: None and "" are falsy.
Truthy(s) == s # NoneVal /\ s # ""

(***************************************************************************)
(* dicts/merge.py                                                          *)
(***************************************************************************)
RECURSIVE deep_merge(_, _)
\* Recursive map merge: a key on both sides whose two values are maps is
\* merged recursively, otherwise the later (child) value wins.
deep_merge(parent, child) ==
    [k \in (DOMAIN parent) \cup (DOMAIN child) |->
        IF k \in DOMAIN parent /\ k \in DOMAIN child
        THEN IF IsMap(parent[k]) /\ IsMap(child[k])
             THEN M(deep_merge(parent[k].m, child[k].m))
             ELSE child[k]
        ELSE IF k \in DOMAIN child THEN child[k] ELSE parent[k]]

\* the module id of a module spec (a dict with the required key "module")
ModuleOf(spec) == spec["module"].s

\* Two specs of the same module: `config` maps are merged recursively,
\* every other key is a later-wins scalar.
merge_module_spec(old, new) ==
    [k \in (DOMAIN old) \cup (DOMAIN new) |->
        IF k \in DOMAIN old /\ k \in DOMAIN new
        THEN IF k = "config" /\ IsMap(old[k]) /\ IsMap(new[k])
             THEN M(deep_merge(old[k].m, new[k].m))
             ELSE new[k]
        ELSE IF k \in DOMAIN new THEN new[k] ELSE old[k]]

\* insert-or-merge one spec into a list indexed by module id
upsert_module(acc, spec) ==
    IF \E i \in 1..Len(acc) : ModuleOf(acc[i]) = ModuleOf(spec)
    THEN [i \in 1..Len(acc) |->
            IF ModuleOf(acc[i]) = ModuleOf(spec)
            THEN merge_module_spec(acc[i], spec)
            ELSE acc[i]]
    ELSE Append(acc, spec)

RECURSIVE upsert_all(_, _)
upsert_all(acc, specs) ==
    IF specs = <<>> THEN acc
    ELSE upsert_all(upsert_module(acc, Head(specs)), Tail(specs))

\* Merge by `module`, first-seen order: parent's modules, then child-only ones.
merge_module_lists(parent, child) == upsert_all(upsert_all(<<>>, parent), child)

(***************************************************************************)
(* bundle.py: the Bundle dataclass and Bundle.compose                      *)
(***************************************************************************)
Bundle(name, version, description, includes, session, providers, tools, hooks, agents, context, instruction, base_path, source_base_paths, pending) ==
    [name |-> name, version |-> version, description |-> description,
     includes |-> includes, session |-> session, providers |-> providers,
     tools |-> tools, hooks |-> hooks, agents |-> agents, context |-> context,
     instruction |-> instruction, base_path |-> base_path,
     source_base_paths |-> source_base_paths, pending_context |-> pending,
     source_uri |-> NoRef]

\* Bundle(name=name): every other field at its dataclass default
DefaultBundle(name) ==
    Bundle(name, "1.0.0", "", <<>>, EmptyMap, <<>>, <<>>, <<>>, EmptyMap,
           <<>>, NoneVal, NoPath, EmptyMap, EmptyMap)

\* the key a context entry of bundle `name` gets in a composed bundle
PrefixedKey(name, key) ==
    IF name # "" /\ Len(key) = 1 THEN <<name>> \o key ELSE key

\* An insertion-ordered dict (the context): a sequence of entries with
\* distinct keys.  od[key] = value keeps the position of an existing key.
ODKeys(od) == {od[i].k : i \in 1..Len(od)}

ODGet(od, key) == (CHOOSE i \in 1..Len(od) : od[i].k = key)

ODSet(od, key, value) ==
    IF key \in ODKeys(od)
    THEN [i \in 1..Len(od) |-> IF od[i].k = key THEN [k |-> key, v |-> value]
                                ELSE od[i]]
    ELSE Append(od, [k |-> key, v |-> value])

RECURSIVE AddPrefixed(_, _, _)
\* for key, path in ctx.items(): acc[prefixed(key)] = path
AddPrefixed(acc, name, ctx) ==
    IF ctx = <<>> THEN acc
    ELSE AddPrefixed(ODSet(acc, PrefixedKey(name, Head(ctx).k), Head(ctx).v),
                     name, Tail(ctx))

\* d.update(e)
DictUpdate(d, e) ==
    [k \in (DOMAIN d) \cup (DOMAIN e) |-> IF k \in DOMAIN e THEN e[k] ELSE d[k]]

\* for k, v in e.items(): if k not in d: d[k] = v
DictSetDefault(d, e) ==
    [k \in (DOMAIN d) \cup (DOMAIN e) |-> IF k \in DOMAIN d THEN d[k] ELSE e[k]]

\* the own-namespace fallback entry {name: base_path}, or {} when unset
OwnBasePath(b) ==
    IF b.name # "" /\ b.base_path # NoPath
    THEN [k \in {b.name} |-> b.base_path]
    ELSE EmptyMap

\* bundle.py 83-87: self's table, plus self's own name when it is missing
InitialBasePaths(self) ==
    DictSetDefault(self.source_base_paths, OwnBasePath(self))

\* faulty variant of ComposeInit: the result starts without self's agents
\* and session
ComposeInitEmpty(self) ==
    [self EXCEPT
        !.source_base_paths = InitialBasePaths(self),
        !.context = AddPrefixed(<<>>, self.name, self.context),
        !.agents = EmptyMap,
        !.session = EmptyMap,
        !.source_uri = NoRef]

\* bundle.py 82-118: the result before any other is folded in
ComposeInit(self) ==
    [self EXCEPT
        !.source_base_paths = InitialBasePaths(self),
        !.context = AddPrefixed(<<>>, self.name, self.context),
        !.source_uri = NoRef]

\* faulty variant of MergeSourceBasePaths: a later bundle overwrites the
\* namespaces already present
LastWriteWins(paths, other) ==
    DictUpdate(DictUpdate(paths, other.source_base_paths), OwnBasePath(other))

\* bundle.py 123-134: other's table first, then other's own name as fallback;
\* a namespace already present is never overwritten
MergeSourceBasePaths(paths, other) ==
    DictSetDefault(DictSetDefault(paths, other.source_base_paths),
                   OwnBasePath(other))

\* faulty variant of LaterNonEmpty: `other.x` without the `or`
LaterAlways(current, later) == later

\* bundle.py 137-140: `other.x or result.x`
LaterNonEmpty(current, later) == IF later # "" THEN later ELSE current

\* bundle.py 168-169: `if other.instruction: result.instruction = ...`
LaterInstruction(current, later) == IF Truthy(later) THEN later ELSE current

\* bundle.py 172-173
LaterBasePath(current, later) == IF later # NoPath THEN later ELSE current

\* bundle.py 143
MergeSession(current, later) == deep_merge(current, later)

\* faulty variant of MergeModules: the two lists taken in the wrong order
MergeModulesSwapped(current, later) == merge_module_lists(later, current)

\* bundle.py 146-148
MergeModules(current, later) == merge_module_lists(current, later)

\* faulty variant of MergeAgents: the later bundle's agents replace the table
AgentsReplaced(current, later) == later

\* bundle.py 151
MergeAgents(current, later) == DictUpdate(current, later)

\* bundle.py 155-161
MergeContext(current, other) == AddPrefixed(current, other.name, other.context)

\* bundle.py 120-173: fold one `other` into the result
ComposeStep(result, other) ==
    [result EXCEPT
        !.source_base_paths = MergeSourceBasePaths(result.source_base_paths, other),
        !.name = LaterNonEmpty(result.name, other.name),
        !.version = LaterNonEmpty(result.version, other.version),
        !.description = LaterNonEmpty(result.description, other.description),
        !.session = MergeSession(result.session, other.session),
        !.providers = MergeModules(result.providers, other.providers),
        !.tools = MergeModules(result.tools, other.tools),
        !.hooks = MergeModules(result.hooks, other.hooks),
        !.agents = MergeAgents(result.agents, other.agents),
        !.context = MergeContext(result.context, other),
        !.pending_context = DictUpdate(result.pending_context,
                                       other.pending_context),
        !.instruction = LaterInstruction(result.instruction, other.instruction),
        !.base_path = LaterBasePath(result.base_path, other.base_path)]

RECURSIVE ComposeFold(_, _)
ComposeFold(result, others) ==
    IF others = <<>> THEN result
    ELSE ComposeFold(ComposeStep(result, Head(others)), Tail(others))

\* self.compose(*others)
Compose(self, others) == ComposeFold(ComposeInit(self), others)

(***************************************************************************)
(* Bundles the composition is exercised on: names crossed with payloads    *)
(* (the values of all the other fields).                                   *)
(***************************************************************************)
BundleNames == {"", "a", "b"}

Entry(key, path) == [k |-> key, v |-> path]

\* Bundle(name=n)
PayEmpty(n) == DefaultBundle(n)

\* a base bundle loaded from /r
PayBase(n) ==
    Bundle(n, "1.0.0", "base desc", <<>>,
           [orchestrator |-> S("loop-basic"), context |-> S("simple")],
           << [module |-> S("p"), config |-> M([x |-> S("1"), y |-> S("2")])] >>,
           << [module |-> S("t1")] >>,
           <<>>,
           [ag1 |-> [name |-> S("ag1")]],
           << Entry(<<"k1">>, <<"r", "context", "k1.md">>) >>,
           "Base instruction", <<"r">>, EmptyMap, EmptyMap)

\* an overriding bundle loaded from /s
PayOver(n) ==
    Bundle(n, "2.0.0", "", <<>>,
           [orchestrator |-> M([module |-> S("loop-streaming"),
                                config |-> M([depth |-> S("1")])])],
           << [module |-> S("p"), config |-> M([y |-> S("3"), z |-> S("4")])],
              [module |-> S("q")] >>,
           <<>>,
           << [module |-> S("h1"), config |-> M([lvl |-> M([a |-> S("1")])])] >>,
           [ag1 |-> [name |-> S("ag1"), model |-> S("m2")],
            ag2 |-> [name |-> S("ag2")]],
           << Entry(<<"k1">>, <<"s", "context", "k1.md">>),
              Entry(<<"a", "k2">>, <<"r", "context", "k2.md">>) >>,
           "Child instruction", <<"s">>, [a |-> <<"root">>], [k3 |-> "b:k3"])

\* a bundle with blank metadata and no base path
PayBlank(n) ==
    Bundle(n, "", "blank desc", <<>>,
           [orchestrator |-> M([module |-> S("loop-basic"), source |-> S("git+x")]),
            extra |-> S("1")],
           << [module |-> S("q"), source |-> S("s1"), config |-> M([x |-> S("9")])],
              [module |-> S("p"), source |-> S("s2")] >>,
           << [module |-> S("t2")],
              [module |-> S("t1"), config |-> M([v |-> S("1")])] >>,
           << [module |-> S("h1"), config |-> M([lvl |-> S("warn")])] >>,
           [ag2 |-> [name |-> S("ag2"), tools |-> S("none")]],
           << Entry(<<"k2">>, <<"o", "context", "k2.md">>) >>,
           "", NoPath, [b |-> <<"other">>, a |-> <<"s">>], EmptyMap)

\* a sub-bundle under /r/sub whose own namespace the registry mapped to /r
PaySub(n) ==
    Bundle(n, "3.0.0", "", <<>>,
           [context |-> M([module |-> S("ctx-simple")])],
           <<>>,
           << [module |-> S("t1"), source |-> S("s3")] >>,
           <<>>,
           EmptyMap,
           << Entry(<<"b", "k1">>, <<"r", "sub", "context", "k1.md">>),
              Entry(<<"k1">>, <<"r", "sub", "k1.md">>) >>,
           NoneVal, <<"r", "sub">>,
           IF n = "" THEN EmptyMap ELSE [k \in {n} |-> <<"r">>],
           [k4 |-> "a:k4"])

BundleSet ==
    {PayEmpty(""), PaySub("a"), PaySub("b")}
        \cup UNION {{PayBase(n), PayOver(n), PayBlank(n)} : n \in BundleNames}

\* the largest number of `others` in one compose call
MaxOthers == 2

\* all sequences over S of length 0..n
RECURSIVE SeqsUpTo(_, _)
SeqsUpTo(Set, n) ==
    IF n = 0 THEN {<<>>}
    ELSE LET shorter == SeqsUpTo(Set, n - 1)
         IN shorter \cup {Append(q, x) : q \in shorter, x \in Set}

(***************************************************************************)
(* State of one compose call: its arguments, the fold position, the        *)
(* result under construction, and the result of the same bundles composed  *)
(* in two nested calls split after cSplit others.                          *)
(***************************************************************************)
VARIABLES cSelf, cOthers, cIdx, cResult, cPhase, cNested, cSplit

cvars == <<cSelf, cOthers, cIdx, cResult, cPhase, cNested, cSplit>>

\* the registry's state, described where its actions are defined
VARIABLES registry, loading, disk, world, tasks, running, call, ret, calls

rvars == <<registry, loading, disk, world, tasks, running, call, ret, calls>>

\* one compose or to_mount_plan call on objects with identity, described
\* where its actions are defined
VARIABLES heap, hSelf, hOthers, hIdx, hResult, hPhase, hTarget, hPlan

hvars == <<heap, hSelf, hOthers, hIdx, hResult, hPhase, hTarget, hPlan>>

\* the state outside the registry and the compose call on values
VARIABLES mText, mStripped, mMatches, mResult, mPhase

mvars == <<mText, mStripped, mMatches, mResult, mPhase>>

VARIABLES fsys, inv

pvars == <<fsys, inv>>

\* one spawn call, and one application of a function to arguments, described
\* where their actions are defined
VARIABLES spawned, applied

yvars == <<spawned, applied>>

xvars == <<hvars, mvars, pvars, yvars>>

SpawnIdle == spawned = [pc |-> "idle"]

AppliedIdle == applied = [fn |-> "idle"]

NoBundle == DefaultBundle("")

ComposeInputs ==
    /\ cSelf \in BundleSet
    /\ cOthers \in SeqsUpTo(BundleSet, MaxOthers)
    /\ cIdx = 0
    /\ cResult = NoBundle
    /\ cPhase = "input"
    /\ cNested = NoBundle
    /\ cSplit = 0

ComposeIdle ==
    /\ cSelf = NoBundle
    /\ cOthers = <<>>
    /\ cIdx = 0
    /\ cResult = NoBundle
    /\ cPhase = "off"
    /\ cNested = NoBundle
    /\ cSplit = 0

\* bundle.py 82-118
ComposeCall ==
    /\ cPhase = "input"
    /\ cResult' = ComposeInit(cSelf)
    /\ cPhase' = "fold"
    /\ UNCHANGED <<cSelf, cOthers, cIdx, cNested, cSplit>>
    /\ UNCHANGED <<rvars, xvars>>

\* bundle.py 120-173: one iteration of `for other in others`
ComposeFoldStep ==
    /\ cPhase = "fold"
    /\ cIdx < Len(cOthers)
    /\ cResult' = ComposeStep(cResult, cOthers[cIdx + 1])
    /\ cIdx' = cIdx + 1
    /\ UNCHANGED <<cSelf, cOthers, cPhase, cNested, cSplit>>
    /\ UNCHANGED <<rvars, xvars>>

\* bundle.py 175
ComposeReturn ==
    /\ cPhase = "fold"
    /\ cIdx = Len(cOthers)
    /\ cPhase' = "done"
    /\ UNCHANGED <<cSelf, cOthers, cIdx, cResult, cNested, cSplit>>
    /\ UNCHANGED <<rvars, xvars>>

\* self.compose(*others[:k]).compose(*others[k:])
ComposeRegroup ==
    /\ cPhase = "done"
    /\ \E k \in 0..Len(cOthers) :
          /\ cSplit' = k
          /\ cNested' = Compose(Compose(cSelf, SubSeq(cOthers, 1, k)),
                                SubSeq(cOthers, k + 1, Len(cOthers)))
    /\ cPhase' = "regrouped"
    /\ UNCHANGED <<cSelf, cOthers, cIdx, cResult>>
    /\ UNCHANGED <<rvars, xvars>>

ComposeNext == ComposeCall \/ ComposeFoldStep \/ ComposeReturn \/ ComposeRegroup

\* self followed by the others folded in so far
Folded == <<cSelf>> \o SubSeq(cOthers, 1, cIdx)

Composing == cPhase \in {"fold", "done", "regrouped"}

(***************************************************************************)
(* Bundles as objects.  heap is the sequence of the objects allocated so   *)
(* far, an object's identity is its index.  A Bundle instance holds its    *)
(* scalar fields and, for each list or dict field, the identity of the     *)
(* list or dict object (refs); a list or dict object is its value.         *)
(*   hSelf, hOthers   the Bundle instances passed to compose               *)
(*   hResult          the Bundle instance compose builds, 0 before         *)
(*   hTarget, hPlan   the Bundle to_mount_plan was called on and the dict  *)
(*                    it returned, 0 before                                *)
(***************************************************************************)
\* the list and dict fields of the dataclass, in declaration order
ContainerFields ==
    <<"includes", "session", "providers", "tools", "hooks", "agents",
      "context", "source_base_paths", "pending_context">>

FieldIndex(f) == CHOOSE i \in 1..Len(ContainerFields) : ContainerFields[i] = f

\* a Bundle instance whose list and dict fields are the objects at
\* base + 1 .. base + 9
Instance(b, refs) ==
    [name |-> b.name, version |-> b.version, description |-> b.description,
     instruction |-> b.instruction, base_path |-> b.base_path, refs |-> refs]

\* the heap after constructing bundle b with fresh lists and dicts
Construct(h, b) ==
    LET base == Len(h)
    IN h \o [i \in 1..Len(ContainerFields) |-> b[ContainerFields[i]]]
         \o << Instance(b, [f \in DOMAIN b \cap {ContainerFields[i] :
                                   i \in 1..Len(ContainerFields)}
                             |-> base + FieldIndex(f)]) >>

\* the value of the Bundle instance with identity id
Deref(h, id) ==
    LET o == h[id]
    IN Bundle(o.name, o.version, o.description, h[o.refs.includes],
              h[o.refs.session], h[o.refs.providers], h[o.refs.tools],
              h[o.refs.hooks], h[o.refs.agents], h[o.refs.context],
              o.instruction, o.base_path, h[o.refs.source_base_paths],
              h[o.refs.pending_context])

\* the Bundle instances a call can be made on
Pool == <<PayEmpty(""), PayBase("a"), PayOver("b"), PayBlank(""), PaySub("a")>>

RECURSIVE ConstructAll(_, _)
ConstructAll(h, bundles) ==
    IF bundles = <<>> THEN h
    ELSE ConstructAll(Construct(h, Head(bundles)), Tail(bundles))

PoolHeap == ConstructAll(<<>>, Pool)

\* the identity of the k-th instance of the pool
PoolId(k) == k * (Len(ContainerFields) + 1)

PoolIds == {PoolId(k) : k \in 1..Len(Pool)}

HeapInputs ==
    /\ heap = PoolHeap
    /\ hSelf \in PoolIds
    /\ hOthers \in SeqsUpTo(PoolIds, MaxOthers)
    /\ hIdx = 0
    /\ hResult = 0
    /\ hPhase = "input"
    /\ hTarget = 0
    /\ hPlan = 0

HeapIdle ==
    /\ heap = <<>>
    /\ hSelf = 0
    /\ hOthers = <<>>
    /\ hIdx = 0
    /\ hResult = 0
    /\ hPhase = "off"
    /\ hTarget = 0
    /\ hPlan = 0

\* faulty variant of CopyRef: the field is bound to the argument itself
AliasRef(fresh, src) == src

\* dict(x) and list(x) return a new object: its identity is the fresh one
CopyRef(fresh, src) == fresh

\* h with the object `id` holding value v
Put(h, id, v) == [h EXCEPT ![id] = v]

RECURSIVE PutFields(_, _, _, _)
\* h with, for each field f of fields, the object refs[f] holding value[f]
PutFields(h, refs, value, fields) ==
    IF fields = <<>> THEN h
    ELSE PutFields(Put(h, refs[Head(fields)], value[Head(fields)]),
                   refs, value, Tail(fields))

\* bundle.py 82-118: the new Bundle and the lists and dicts it is built on
HeapComposeCall ==
    /\ hPhase = "input"
    /\ LET self == heap[hSelf]
           base == Len(heap)
           init == ComposeInit(Deref(heap, hSelf))
           refs == [f \in DOMAIN self.refs |->
                      IF f = "context" THEN base + FieldIndex(f)
                      ELSE CopyRef(base + FieldIndex(f), self.refs[f])]
           fresh == heap \o [i \in 1..Len(ContainerFields) |-> <<>>]
       IN /\ heap' = PutFields(fresh, refs, init, ContainerFields)
                        \o << Instance(init, refs) >>
          /\ hResult' = base + Len(ContainerFields) + 1
    /\ hPhase' = "fold"
    /\ UNCHANGED <<hSelf, hOthers, hIdx, hTarget, hPlan>>
    /\ UNCHANGED <<cvars, rvars, mvars, pvars, yvars>>

\* bundle.py 120-173: source_base_paths, agents, context and
\* _pending_context are updated in place, session and the module lists are
\* bound to the objects the merge functions return
HeapFoldStep ==
    /\ hPhase = "fold"
    /\ hIdx < Len(hOthers)
    /\ LET result == heap[hResult]
           step == ComposeStep(Deref(heap, hResult), Deref(heap, hOthers[hIdx + 1]))
           base == Len(heap)
           rebound == <<"session", "providers", "tools", "hooks">>
           inplace == <<"source_base_paths", "agents", "context", "pending_context">>
           refs == [f \in DOMAIN result.refs |->
                      IF \E i \in 1..Len(rebound) : rebound[i] = f
                      THEN base + (CHOOSE i \in 1..Len(rebound) : rebound[i] = f)
                      ELSE result.refs[f]]
           fresh == heap \o [i \in 1..Len(rebound) |-> step[rebound[i]]]
       IN heap' = Put(PutFields(fresh, refs, step, inplace),
                      hResult, Instance(step, refs))
    /\ hIdx' = hIdx + 1
    /\ UNCHANGED <<hSelf, hOthers, hResult, hPhase, hTarget, hPlan>>
    /\ UNCHANGED <<cvars, rvars, mvars, pvars, yvars>>

\* bundle.py 175
HeapComposeReturn ==
    /\ hPhase = "fold"
    /\ hIdx = Len(hOthers)
    /\ hPhase' = "done"
    /\ UNCHANGED <<heap, hSelf, hOthers, hIdx, hResult, hTarget, hPlan>>
    /\ UNCHANGED <<cvars, rvars, mvars, pvars, yvars>>

\* faulty variant of IsSet: the section is put in the plan even when empty
AlwaysSet(value) == TRUE

\* `if self.session:` and the like: a non-empty list or dict
IsSet(value) == value # <<>>

\* bundle.py 183-201: to_mount_plan() called on the Bundle instance target
ToMountPlan(target) ==
    /\ hPhase \in {"input", "done"}
    /\ target # 0
    /\ LET self == heap[target]
           sections == <<"session", "providers", "tools", "hooks", "agents">>
           present == SelectSeq(sections, LAMBDA k : IsSet(heap[self.refs[k]]))
           base == Len(heap)
           mount_plan ==
               [k \in {present[i] : i \in 1..Len(present)} |->
                   CopyRef(base + (CHOOSE i \in 1..Len(present) : present[i] = k),
                           self.refs[k])]
       IN /\ heap' = heap \o [i \in 1..Len(present) |-> heap[self.refs[present[i]]]]
                          \o << mount_plan >>
          /\ hPlan' = base + Len(present) + 1
    /\ hTarget' = target
    /\ hPhase' = "planned"
    /\ UNCHANGED <<hSelf, hOthers, hIdx, hResult>>
    /\ UNCHANGED <<cvars, rvars, mvars, pvars, yvars>>

HeapNext ==
    \/ HeapComposeCall
    \/ HeapFoldStep
    \/ HeapComposeReturn
    \/ \E target \in {hSelf, hResult} : ToMountPlan(target)

(***************************************************************************)
(* mentions/parser.py.  A text is a sequence of characters, each a string  *)
(* of length one but for Backtick.  The regular expressions work on marked *)
(* texts, sequences of [ch, at] where `at` is the character's index in the *)
(* text parsed, so that what a substitution removed can be told afterwards.*)
(***************************************************************************)
\* the character U+0060, which cannot be written in a string of this language
Backtick == "U+0060"

Lower ==
    {"a", "b", "c", "d", "e", "f", "g", "h", "i", "j", "k", "l", "m", "n",
     "o", "p", "q", "r", "s", "t", "u", "v", "w", "x", "y", "z"}

Upper ==
    {"A", "B", "C", "D", "E", "F", "G", "H", "I", "J", "K", "L", "M", "N",
     "O", "P", "Q", "R", "S", "T", "U", "V", "W", "X", "Y", "Z"}

Digits == {"0", "1", "2", "3", "4", "5", "6", "7", "8", "9"}

\* [a-zA-Z0-9_:./\-]
MentionChars == Lower \cup Upper \cup Digits \cup {"_", ":", ".", "/", "-"}

\* [a-zA-Z0-9._%+-]
EmailLocalChars == Lower \cup Upper \cup Digits \cup {".", "_", "%", "+", "-"}

\* [a-zA-Z0-9.-]
EmailDomainChars == Lower \cup Upper \cup Digits \cup {".", "-"}

Mark(text) == [i \in 1..Len(text) |-> [ch |-> text[i], at |-> i]]

Chars(marked) == [i \in 1..Len(marked) |-> marked[i].ch]

Ticks3(s, i) ==
    /\ i + 2 <= Len(s)
    /\ s[i].ch = Backtick /\ s[i + 1].ch = Backtick /\ s[i + 2].ch = Backtick

\* the least element of a set of positions, 0 for the empty set
First(positions) ==
    IF positions = {} THEN 0
    ELSE CHOOSE k \in positions : \A j \in positions : k <= j

\* ```[^\n]*\n.*?``` (DOTALL) matched at i: its last position, 0 for no match
FencedEnd(s, i) ==
    IF ~Ticks3(s, i) THEN 0
    ELSE LET newline == First({j \in (i + 3)..Len(s) : s[j].ch = "\n"})
             closing == IF newline = 0 THEN 0
                        ELSE First({k \in (newline + 1)..Len(s) : Ticks3(s, k)})
         IN IF closing = 0 THEN 0 ELSE closing + 2

\* `[^`]+` matched at i: its last position, 0 for no match
InlineEnd(s, i) ==
    IF ~(i + 2 <= Len(s) /\ s[i].ch = Backtick /\ s[i + 1].ch # Backtick) THEN 0
    ELSE First({k \in (i + 2)..Len(s) : s[k].ch = Backtick})

RECURSIVE SubFenced(_, _)
\* re.sub of the fenced pattern with "", scanning from position i
SubFenced(s, i) ==
    IF i > Len(s) THEN <<>>
    ELSE IF FencedEnd(s, i) # 0 THEN SubFenced(s, FencedEnd(s, i) + 1)
    ELSE <<s[i]>> \o SubFenced(s, i + 1)

RECURSIVE SubInline(_, _)
\* re.sub of the inline pattern with "", scanning from position i
SubInline(s, i) ==
    IF i > Len(s) THEN <<>>
    ELSE IF InlineEnd(s, i) # 0 THEN SubInline(s, InlineEnd(s, i) + 1)
    ELSE <<s[i]>> \o SubInline(s, i + 1)

\* _remove_code_blocks on a marked text
StripMarked(s) == SubInline(SubFenced(s, 1), 1)

\* _remove_code_blocks
remove_code_blocks(text) == Chars(StripMarked(Mark(text)))

\* the lookahead [a-zA-Z0-9._%+-]+@[a-zA-Z0-9.-]+\.[a-zA-Z]{2,} at p
EmailAhead(s, p) ==
    \E n \in 1..Len(s) : \E m \in 1..Len(s) :
        /\ p + n + m + 3 <= Len(s)
        /\ \A q \in p..(p + n - 1) : s[q] \in EmailLocalChars
        /\ s[p + n] = "@"
        /\ \A q \in (p + n + 1)..(p + n + m) : s[q] \in EmailDomainChars
        /\ s[p + n + m + 1] = "."
        /\ s[p + n + m + 2] \in Lower \cup Upper
        /\ s[p + n + m + 3] \in Lower \cup Upper

\* the length of the run of mention characters that starts at p
RunLength(s, p) ==
    LET stop == First({k \in p..Len(s) : s[k] \notin MentionChars})
    IN IF stop = 0 THEN Len(s) + 1 - p ELSE stop - p

RECURSIVE FindAll(_, _)
\* re.findall(pattern, s), scanning from position i: the groups matched
FindAll(s, i) ==
    IF i > Len(s) THEN <<>>
    ELSE IF s[i] = "@" /\ ~EmailAhead(s, i + 1) /\ RunLength(s, i + 1) > 0
    THEN <<SubSeq(s, i + 1, i + RunLength(s, i + 1))>>
            \o FindAll(s, i + 1 + RunLength(s, i + 1))
    ELSE FindAll(s, i + 1)

\* the loop over matches: "@" is put in front, a mention seen before is left out
Unique(matches) ==
    LET F[i \in 0..Len(matches)] ==
            IF i = 0 THEN <<>>
            ELSE LET mention == <<"@">> \o matches[i]
                 IN IF \E j \in 1..Len(F[i - 1]) : F[i - 1][j] = mention
                    THEN F[i - 1]
                    ELSE Append(F[i - 1], mention)
    IN F[Len(matches)]

parse_mentions(text) == Unique(FindAll(remove_code_blocks(text), 1))

\* the pieces a text is made of, and the most pieces of a text
MentionTokens ==
    {<<"@", "a">>, <<"@", "b">>, <<Backtick>>, <<Backtick, Backtick, Backtick>>,
     <<"\n">>, <<"x">>}

MaxTokens == 5

RECURSIVE Flatten(_)
Flatten(pieces) ==
    IF pieces = <<>> THEN <<>> ELSE Head(pieces) \o Flatten(Tail(pieces))

MentionTexts == {Flatten(pieces) : pieces \in SeqsUpTo(MentionTokens, MaxTokens)}

MentionsIdle ==
    /\ mText = <<>>
    /\ mStripped = <<>>
    /\ mMatches = <<>>
    /\ mResult = <<>>
    /\ mPhase = "off"

\* texts with an email address: the pieces they are made of
EmailTokens == {<<"u">>, <<"@", "e", ".", "c", "c">>, <<"@", "a">>, <<"\n">>}

EmailTexts == {Flatten(pieces) : pieces \in SeqsUpTo(EmailTokens, MaxTokens)}

MentionsInputs ==
    /\ mText \in MentionTexts \cup EmailTexts
    /\ mStripped = <<>>
    /\ mMatches = <<>>
    /\ mResult = <<>>
    /\ mPhase = "call"

\* parser.py 27: text_without_code = _remove_code_blocks(text)
RemoveCodeBlocks ==
    /\ mPhase = "call"
    /\ mStripped' = remove_code_blocks(mText)
    /\ mPhase' = "stripped"
    /\ UNCHANGED <<mText, mMatches, mResult>>
    /\ UNCHANGED <<cvars, rvars, hvars, pvars, yvars>>

\* parser.py 34: matches = re.findall(pattern, text_without_code)
FindMatches ==
    /\ mPhase = "stripped"
    /\ mMatches' = FindAll(mStripped, 1)
    /\ mPhase' = "matched"
    /\ UNCHANGED <<mText, mStripped, mResult>>
    /\ UNCHANGED <<cvars, rvars, hvars, pvars, yvars>>

\* parser.py 36-45: the unique mentions in order, returned
ReturnMentions ==
    /\ mPhase = "matched"
    /\ mResult' = Unique(mMatches)
    /\ mPhase' = "done"
    /\ UNCHANGED <<mText, mStripped, mMatches>>
    /\ UNCHANGED <<cvars, rvars, hvars, pvars, yvars>>

MentionsNext ==
    \/ RemoveCodeBlocks
    \/ FindMatches
    \/ ReturnMentions

(***************************************************************************)
(* mentions/resolver.py, mentions/deduplicator.py, io/files.py and         *)
(* mentions/loader.py.                                                     *)
(*   fsys  the files under the resolver's base path: path -> what reading  *)
(*         it gives.  A path is the text of its name relative to the base  *)
(*         path.                                                           *)
(*   inv   the calls in progress or finished, one record each: text and    *)
(*         max_depth as passed, the deduplicator, the loop over the        *)
(*         top-level mentions, and the stack of _resolve_mention frames.   *)
(*         `adds` and `reads` log the calls of add_file and the reads.     *)
(***************************************************************************)
Missing == [kind |-> "missing", content |-> <<>>]

\* a directory: exists, reading it raises IsADirectoryError (an OSError)
Directory == [kind |-> "dir", content |-> <<>>]

\* a file whose bytes are not UTF-8: read_text raises UnicodeDecodeError
Undecodable == [kind |-> "binary", content |-> <<>>]

\* a file whose every read raises OSError with errno 5
IOError5 == [kind |-> "eio", content |-> <<>>]

TextFile(content) == [kind |-> "text", content |-> content]

\* path.exists()
PathExists(files, path) == path \in DOMAIN files /\ files[path].kind # "missing"

MdSuffix == <<".", "m", "d">>

EndsWithMd(name) ==
    Len(name) >= Len(MdSuffix)
        /\ SubSeq(name, Len(name) - Len(MdSuffix) + 1, Len(name)) = MdSuffix

\* construct_context_path on names written as texts
ContextFilePath(base, name) ==
    base \o <<"context/">> \o (IF EndsWithMd(name) THEN name ELSE name \o MdSuffix)

\* Bundle.resolve_context_path
resolve_context_path(files, bundle, name) ==
    IF name \in DOMAIN bundle.context THEN bundle.context[name]
    ELSE IF bundle.base_path # NoPath
            /\ PathExists(files, ContextFilePath(bundle.base_path, name))
    THEN ContextFilePath(bundle.base_path, name)
    ELSE NoPath

\* BaseMentionResolver.resolve, NoPath for None
resolve(files, bundles, mention) ==
    IF mention = <<>> \/ Head(mention) # "@" THEN NoPath
    ELSE LET mention_body == Tail(mention)
             colon == First({i \in 1..Len(mention_body) : mention_body[i] = ":"})
         IN IF colon # 0
            THEN LET namespace == SubSeq(mention_body, 1, colon - 1)
                     name == SubSeq(mention_body, colon + 1, Len(mention_body))
                 IN IF namespace \in DOMAIN bundles
                    THEN resolve_context_path(files, bundles[namespace], name)
                    ELSE NoPath
            ELSE IF PathExists(files, mention_body) THEN mention_body
            ELSE IF PathExists(files, mention_body \o MdSuffix)
            THEN mention_body \o MdSuffix
            ELSE NoPath

\* hashlib.sha256(content.encode()).hexdigest(): one digest per content
Sha256(content) == <<"sha256", content>>

\* ContentDeduplicator()
NewDeduplicator == [seen_hashes |-> {}, files |-> <<>>]

ContextFile(path, content) ==
    [path |-> path, content |-> content, content_hash |-> Sha256(content)]

\* faulty variant of add_file: a file is taken for seen by its path
add_file_by_path(dedup, path, content) ==
    IF \E i \in 1..Len(dedup.files) : dedup.files[i].path = path
    THEN [added |-> FALSE, dedup |-> dedup]
    ELSE [added |-> TRUE,
          dedup |-> [seen_hashes |-> dedup.seen_hashes \cup {Sha256(content)},
                     files |-> Append(dedup.files, ContextFile(path, content))]]

\* ContentDeduplicator.add_file: what it returns and the deduplicator after
add_file(dedup, path, content) ==
    IF Sha256(content) \in dedup.seen_hashes
    THEN [added |-> FALSE, dedup |-> dedup]
    ELSE [added |-> TRUE,
          dedup |-> [seen_hashes |-> dedup.seen_hashes \cup {Sha256(content)},
                     files |-> Append(dedup.files, ContextFile(path, content))]]

\* ContentDeduplicator.get_unique_files
get_unique_files(dedup) == dedup.files

\* MentionResult; .found is resolved_path and content both not None
MentionResult(mention, resolved_path, content) ==
    [mention |-> mention, resolved_path |-> resolved_path, content |-> content,
     error |-> NoneVal]

\* content of a result that has none
NoContent == <<NoneVal>>

Found(result) == result.resolved_path # NoPath /\ result.content # NoContent

\* read_with_retry: attempts made before an OSError with errno 5 is raised
MaxRetries == 3

\* path.parent of a path below the base path: the part before the last "/",
\* the base path itself (empty) when there is none
PathParent(path) ==
    LET slashes == {i \in 1..Len(path) : path[i] = "/"}
    IN IF slashes = {} THEN <<>>
       ELSE SubSeq(path, 1, (CHOOSE i \in slashes : \A k \in slashes : k <= i) - 1)

NewResolveFrame(mention, relative_to, depth) ==
    [pc |-> "resolve", mention |-> mention, relative_to |-> relative_to, path |-> NoPath, content |-> NoContent,
     nested |-> <<>>, idx |-> 0, depth |-> depth, attempt |-> 0]

\* a call of load_mentions(text, resolver, max_depth=max_depth, ...)
NewLoad(text, max_depth) ==
    [pc |-> "call", text |-> text, max_depth |-> max_depth,
     dedup |-> NewDeduplicator, mentions |-> <<>>, idx |-> 0, results |-> <<>>,
     stack |-> <<>>, exc |-> "", adds |-> <<>>, reads |-> <<>>]

\* the namespaces the resolver knows
LoaderBundles ==
    (<<"n">> :> [context |-> (<<"k">> :> <<"b">>), base_path |-> NoPath])

InvTop(t) == inv[t].stack[Len(inv[t].stack)]

SetInvTop(t, frame) == [inv EXCEPT ![t].stack = [@ EXCEPT ![Len(@)] = frame]]

\* _resolve_mention returns result: to the loop of load_mentions, which
\* appends it, or to the calling _resolve_mention, which drops it
MentionReturned(t, result) ==
    LET stack == inv[t].stack
        popped == SubSeq(stack, 1, Len(stack) - 1)
    IN IF popped = <<>>
       THEN [inv EXCEPT ![t].stack = <<>>,
                        ![t].results = Append(@, result),
                        ![t].idx = @ + 1]
       ELSE [inv EXCEPT ![t].stack =
                [i \in 1..Len(popped) |->
                    IF i = Len(popped) THEN [popped[i] EXCEPT !.idx = @ + 1]
                    ELSE popped[i]]]

(***************************************************************************)
(* One call of load_mentions on files a, b, c and c.md under the base      *)
(* path.                                                                   *)
(***************************************************************************)
\* the greatest max_depth passed
MaxDepth == 1

PathA == <<"a">>

PathB == <<"b">>

PathC == <<"c">>

PathCMd == <<"c">> \o MdSuffix

\* what each file may be
FileChoices(path) ==
    CASE path = PathA -> {Missing, TextFile(<<"@", "b">>),
                          TextFile(<<"@", "b", "\n", "@", "c">>),
                          TextFile(<<"@", "a">>)}
      [] path = PathB -> {Missing, Directory, Undecodable, IOError5,
                          TextFile(<<"@", "a">>), TextFile(<<"@", "c">>),
                          TextFile(<<"@", "b", "\n", "@", "c">>)}
      [] path = PathC -> {Missing, TextFile(<<"x">>), TextFile(<<"@", "a">>)}
      [] OTHER -> {Missing, TextFile(<<"x">>)}

LoaderFileSystems ==
    {(PathA :> a) @@ (PathB :> b) @@ (PathC :> c) @@ (PathCMd :> d) :
        a \in FileChoices(PathA), b \in FileChoices(PathB),
        c \in FileChoices(PathC), d \in FileChoices(PathCMd)}

\* the texts passed to load_mentions
LoaderTexts ==
    {<<"@", "a">>, <<"@", "a", "\n", "@", "b">>,
     <<"@", "c", "\n", "@", "n", ":", "k", "\n", "@", "a">>}

(***************************************************************************)
(* One call of load_mentions on a text that mentions d/a, a file in the    *)
(* directory d below the base path, which mentions b; files named b may be *)
(* in d and in the base path.                                              *)
(***************************************************************************)
PathDA == <<"d", "/", "a">>

PathDB == <<"d", "/", "b">>

NestedChoices(path) ==
    CASE path = PathDA -> {TextFile(<<"@", "b">>), TextFile(<<"@", "b", "\n", "@", "c">>)}
      [] path = PathDB -> {Missing, TextFile(<<"y">>), TextFile(<<"@", "c">>)}
      [] path = PathB -> {Missing, TextFile(<<"x">>), TextFile(<<"@", "c">>)}
      [] OTHER -> {Missing, TextFile(<<"x">>)}

NestedFileSystems ==
    {(PathDA :> a) @@ (PathDB :> b) @@ (PathB :> c) @@ (PathC :> d) :
        a \in NestedChoices(PathDA), b \in NestedChoices(PathDB),
        c \in NestedChoices(PathB), d \in NestedChoices(PathC)}

NestedTexts == {<<"@", "d", "/", "a">>, <<"@", "d", "/", "a", "\n", "@", "b">>}

(***************************************************************************)
(* The system-prompt factory of a prepared bundle whose instruction        *)
(* mentions file a and whose context k is file b.                          *)
(***************************************************************************)
PromptBundle ==
    [name |-> <<"n">>, instruction |-> <<"@", "a">>,
     context_items |-> <<[name |-> <<"k">>, path |-> PathB]>>]

\* what each file may be while the session runs
PromptChoices(path) ==
    CASE path = PathA -> {TextFile(<<"@", "b">>),
                          TextFile(<<"@", "b", "\n", "@", "c">>)}
      [] path = PathB -> {Missing, Undecodable, TextFile(<<"@", "c">>),
                          TextFile(<<"x">>)}
      [] path = PathC -> {Missing, IOError5, TextFile(<<"x">>)}
      [] OTHER -> {Missing}

PromptFileSystems ==
    {(PathA :> a) @@ (PathB :> b) @@ (PathC :> c) @@ (PathCMd :> d) :
        a \in PromptChoices(PathA), b \in PromptChoices(PathB),
        c \in PromptChoices(PathC), d \in PromptChoices(PathCMd)}

\* "\n\n---\n\n"
PartSeparator == <<"\n", "\n", "-", "-", "-", "\n", "\n">>

\* f"# Context: {context_name}\n\n{content}"
ContextPart(context_name, content) ==
    <<"#", " ", "C", "o", "n", "t", "e", "x", "t", ":", " ">>
        \o context_name \o <<"\n", "\n">> \o content

\* bundle.py 660-669: the instruction, then every context file that exists,
\* read anew; exc is the exception read_text raises, "" for none
RECURSIVE ContextParts(_, _, _)
ContextParts(files, items, i) ==
    IF i > Len(items) THEN [exc |-> "", parts |-> <<>>]
    ELSE LET file == files[items[i].path]
             rest == ContextParts(files, items, i + 1)
         IN CASE file.kind = "missing" -> rest
              [] file.kind = "text" ->
                   [rest EXCEPT !.parts =
                       <<[name |-> items[i].name, path |-> items[i].path,
                          content |-> file.content]>> \o @]
              [] file.kind = "binary" -> [exc |-> "UnicodeDecodeError", parts |-> <<>>]
              [] OTHER -> [exc |-> "OSError", parts |-> <<>>]

\* faulty variant of InstructionParts: the context files as they were when
\* the bundle was prepared
InstructionPartsAsPrepared(files, bundle) ==
    ContextParts((PathA :> TextFile(<<"@", "b">>)) @@ (PathB :> TextFile(<<"x">>))
                    @@ (PathC :> Missing) @@ (PathCMd :> Missing),
                 bundle.context_items, 1)

InstructionParts(files, bundle) == ContextParts(files, bundle.context_items, 1)

\* "\n\n---\n\n".join(instruction_parts)
RECURSIVE JoinParts(_, _)
JoinParts(texts, i) ==
    IF i > Len(texts) THEN <<>>
    ELSE IF i = Len(texts) THEN texts[i]
    ELSE texts[i] \o PartSeparator \o JoinParts(texts, i + 1)

\* bundle.py 660-671: combined_instruction
CombinedInstruction(bundle, parts) ==
    JoinParts((IF bundle.instruction # <<>> THEN <<bundle.instruction>> ELSE <<>>)
                \o [i \in 1..Len(parts) |->
                       ContextPart(parts[i].name, parts[i].content)], 1)

\* the combined instructions the factory can build
PromptTexts ==
    {CombinedInstruction(PromptBundle, InstructionParts(files, PromptBundle).parts) :
        files \in PromptFileSystems}

\* parse_mentions, tabulated over the texts passed and the contents read
LoaderContents ==
    LoaderTexts \cup {file.content : file \in
                        {f \in UNION {FileChoices(path) :
                                        path \in {PathA, PathB, PathC, PathCMd}} :
                            f.kind = "text"}}
        \cup PromptTexts \cup {<<"x">>, <<"y">>} \cup NestedTexts

ParsedMentions == [text \in LoaderContents |-> parse_mentions(text)]

\* loader.py 37-41: the deduplicator is made, the text parsed
LoadMentionsCall(t) ==
    /\ inv[t].pc = "call"
    /\ inv' = [inv EXCEPT ![t].pc = "loop",
                          ![t].mentions = ParsedMentions[inv[t].text],
                          ![t].idx = 1]
    /\ UNCHANGED fsys
    /\ UNCHANGED <<cvars, rvars, hvars, mvars, yvars>>

\* loader.py 43-51: _resolve_mention is called for the next mention
LoadMentionsNext(t) ==
    /\ inv[t].pc = "loop"
    /\ inv[t].stack = <<>>
    /\ inv[t].idx <= Len(inv[t].mentions)
    /\ inv' = [inv EXCEPT ![t].stack =
                  <<NewResolveFrame(inv[t].mentions[inv[t].idx], NoPath, 0)>>]
    /\ UNCHANGED fsys
    /\ UNCHANGED <<cvars, rvars, hvars, mvars, yvars>>

\* loader.py 54: return results
LoadMentionsReturn(t) ==
    /\ inv[t].pc = "loop"
    /\ inv[t].stack = <<>>
    /\ inv[t].idx > Len(inv[t].mentions)
    /\ inv' = [inv EXCEPT ![t].pc = "returned"]
    /\ UNCHANGED fsys
    /\ UNCHANGED <<cvars, rvars, hvars, mvars, yvars>>

\* loader.py 67-74: the resolver is asked for the path; it is given the
\* mention alone, relative_to is not passed on
ResolveMention(t) ==
    /\ inv[t].stack # <<>>
    /\ InvTop(t).pc = "resolve"
    /\ LET f == InvTop(t)
           path == resolve(fsys, LoaderBundles, f.mention)
       IN inv' = IF path = NoPath
                 THEN MentionReturned(t, MentionResult(f.mention, NoPath, NoContent))
                 ELSE SetInvTop(t, [f EXCEPT !.path = path, !.pc = "read"])
    /\ UNCHANGED fsys
    /\ UNCHANGED <<cvars, rvars, hvars, mvars, yvars>>

\* loader.py 77-85 and files.py 38-55: one attempt of read_with_retry; an
\* OSError with errno 5 is retried after a sleep, any other OSError and the
\* last one of errno 5 are caught by _resolve_mention, an exception that is
\* no OSError leaves load_mentions
ReadMention(t) ==
    /\ inv[t].stack # <<>>
    /\ InvTop(t).pc = "read"
    /\ LET f == InvTop(t)
           file == IF f.path \in DOMAIN fsys THEN fsys[f.path] ELSE Missing
           logged == [inv EXCEPT ![t].reads =
                         Append(@, [path |-> f.path, depth |-> f.depth])]
       IN inv' =
            CASE file.kind = "text" ->
                   [logged EXCEPT ![t].stack[Len(inv[t].stack)] =
                       [f EXCEPT !.content = file.content, !.pc = "add"]]
              [] file.kind = "eio" /\ f.attempt < MaxRetries - 1 ->
                   SetInvTop(t, [f EXCEPT !.attempt = @ + 1])
              [] file.kind = "binary" ->
                   [logged EXCEPT ![t].stack = <<>>, ![t].pc = "raised",
                                  ![t].exc = "UnicodeDecodeError"]
              [] OTHER ->
                   MentionReturned(t, MentionResult(f.mention, f.path, NoContent))
    /\ UNCHANGED fsys
    /\ UNCHANGED <<cvars, rvars, hvars, mvars, yvars>>

\* faulty variant of DepthAllows: one level more is parsed
DepthAllowsOneMore(current_depth, max_depth) == current_depth <= max_depth

\* loader.py 97: nested mentions are loaded below max_depth only
DepthAllows(current_depth, max_depth) == current_depth < max_depth

\* loader.py 88-98: the content is offered to the deduplicator; when it is
\* new and the depth allows, its mentions are parsed
AddMention(t) ==
    /\ inv[t].stack # <<>>
    /\ InvTop(t).pc = "add"
    /\ LET f == InvTop(t)
           offered == add_file(inv[t].dedup, f.path, f.content)
           logged == [inv EXCEPT
                         ![t].dedup = offered.dedup,
                         ![t].adds = Append(@, [path |-> f.path,
                                                content |-> f.content,
                                                added |-> offered.added])]
       IN inv' =
            IF ~offered.added
            THEN [MentionReturned(t, MentionResult(f.mention, f.path, NoContent))
                    EXCEPT ![t].adds = logged[t].adds]
            ELSE [logged EXCEPT ![t].stack[Len(inv[t].stack)] =
                    [f EXCEPT !.pc = "nested", !.idx = 1,
                              !.nested = IF DepthAllows(f.depth, inv[t].max_depth)
                                         THEN ParsedMentions[f.content]
                                         ELSE <<>>]]
    /\ UNCHANGED fsys
    /\ UNCHANGED <<cvars, rvars, hvars, mvars, yvars>>

\* loader.py 99-107: _resolve_mention is called for the next nested mention,
\* with relative_to = path.parent
NestedMention(t) ==
    /\ inv[t].stack # <<>>
    /\ InvTop(t).pc = "nested"
    /\ InvTop(t).idx <= Len(InvTop(t).nested)
    /\ inv' = [inv EXCEPT ![t].stack =
                  Append(@, NewResolveFrame(InvTop(t).nested[InvTop(t).idx],
                                            PathParent(InvTop(t).path),
                                            InvTop(t).depth + 1))]
    /\ UNCHANGED fsys
    /\ UNCHANGED <<cvars, rvars, hvars, mvars, yvars>>

\* loader.py 109-114: the result with the content
MentionLoaded(t) ==
    /\ inv[t].stack # <<>>
    /\ InvTop(t).pc = "nested"
    /\ InvTop(t).idx > Len(InvTop(t).nested)
    /\ inv' = MentionReturned(t, MentionResult(InvTop(t).mention, InvTop(t).path,
                                               InvTop(t).content))
    /\ UNCHANGED fsys
    /\ UNCHANGED <<cvars, rvars, hvars, mvars, yvars>>

\* load_mentions: the default of max_depth
DefaultMaxDepth == 10

\* the most invocations of the factory in a session
MaxFactoryCalls == 2

NoPrompt == <<NoneVal>>

\* faulty variant of FactoryDeduplicator: the deduplicator of the session,
\* as the invocation before left it
SessionDeduplicator(invocations) ==
    IF invocations = <<>> THEN NewDeduplicator
    ELSE invocations[Len(invocations)].dedup

\* bundle.py 683-684: deduplicator = ContentDeduplicator()
FactoryDeduplicator(invocations) == NewDeduplicator

\* bundle.py 658-690: factory() is invoked; it reads the context files and
\* calls load_mentions on the combined instruction; an exception of
\* read_text leaves the factory
FactoryCall ==
    /\ Len(inv) < MaxFactoryCalls
    /\ LET read == InstructionParts(fsys, PromptBundle)
           text == CombinedInstruction(PromptBundle, read.parts)
           invocation == [NewLoad(text, DefaultMaxDepth)
                        EXCEPT !.dedup = FactoryDeduplicator(inv)]
                    @@ [parts |-> read.parts, files |-> fsys, prompt |-> NoPrompt,
                        during |-> {t \in 1..Len(inv) : inv[t].pc \notin
                                                            {"prompt", "raised"}}]
       IN inv' = Append(inv, IF read.exc = "" THEN invocation
                             ELSE [invocation EXCEPT !.pc = "raised", !.exc = read.exc])
    /\ UNCHANGED fsys
    /\ UNCHANGED <<cvars, rvars, hvars, mvars, yvars>>

\* bundle.py 693-697: mention_to_path
mention_to_path(mention_results) ==
    LET resolved == {i \in 1..Len(mention_results) :
                        mention_results[i].resolved_path # NoPath}
    IN [mention \in {mention_results[i].mention : i \in resolved} |->
           mention_results[CHOOSE i \in resolved :
               /\ mention_results[i].mention = mention
               /\ \A j \in resolved :
                     mention_results[j].mention = mention => j <= i].resolved_path]

\* format_context_block: one block per file of the deduplicator, in order,
\* with the mentions that led to its path
format_context_block(dedup, paths) ==
    [i \in 1..Len(get_unique_files(dedup)) |->
        [path |-> get_unique_files(dedup)[i].path,
         content |-> get_unique_files(dedup)[i].content,
         mentions |-> {mention \in DOMAIN paths :
                          paths[mention] = get_unique_files(dedup)[i].path}]]

\* bundle.py 703-706: the context block, if any, in front of the instruction
SystemPrompt(context_block, combined_instruction) ==
    [context_block |-> context_block, instruction |-> combined_instruction]

\* bundle.py 693-706: load_mentions has returned, the prompt is put together
FactoryReturn(t) ==
    /\ inv[t].pc = "returned"
    /\ inv' = [inv EXCEPT
                  ![t].pc = "prompt",
                  ![t].prompt =
                      SystemPrompt(format_context_block(
                                       inv[t].dedup, mention_to_path(inv[t].results)),
                                   inv[t].text)]
    /\ UNCHANGED fsys
    /\ UNCHANGED <<cvars, rvars, hvars, mvars, yvars>>

FactoryEnded(t) == inv[t].pc \in {"prompt", "raised"}

\* between two invocations a file of the session is written, removed or
\* replaced
ChangeFile(path, file) ==
    /\ inv # <<>>
    /\ Len(inv) < MaxFactoryCalls
    /\ \A t \in 1..Len(inv) : FactoryEnded(t)
    /\ inv[Len(inv)].files = fsys
    /\ file # fsys[path]
    /\ fsys' = [fsys EXCEPT ![path] = file]
    /\ UNCHANGED inv
    /\ UNCHANGED <<cvars, rvars, hvars, mvars, yvars>>

LoaderIdle ==
    /\ fsys = EmptyMap
    /\ inv = <<>>

(***************************************************************************)
(* PreparedBundle.spawn: one call, from the child session just constructed *)
(* to the return or the exception. spawned holds the arguments, what the   *)
(* child session offers, the position in spawn, the calls made on the      *)
(* child session in order, and how the call ended.                         *)
(***************************************************************************)
\* parent_messages=None
NoMessages == <<NoneVal>>

\* bool(messages) of an optional list
TruthyList(messages) == messages # NoMessages /\ messages # <<>>

\* how an awaited call can end
AwaitOutcomes == {"ok", "raise", "cancel"}

\* the exception an awaited call that did not return leaves in spawn
AwaitRaised(operation, outcome) ==
    IF outcome = "cancel" THEN "CancelledError" ELSE "Exception"

\* AmplifierSession(..., session_id=session_id): the id given, or a new one
ChildSessionId(session_id) == IF Truthy(session_id) THEN session_id ELSE "new"

SpawnArguments ==
    [session_id : {NoneVal, "s1"},
     parent_messages : {NoMessages, <<>>, <<"m1", "m2">>},
     context : {"none", "plain", "messages"},
     prompted : BOOLEAN]

NewSpawn(arguments) ==
    [pc |-> "created", args |-> arguments, events |-> <<>>,
     response |-> NoneVal, exc |-> "", result |-> NoneVal]

Calls(operation) ==
    [spawned EXCEPT !.events = Append(@, [call |-> operation, arg |-> NoneVal])]

\* an awaited call on the child session has ended: spawn goes on at next or
\* the exception leaves spawn
Awaited(operation, outcome, next) ==
    IF outcome = "ok" THEN [Calls(operation) EXCEPT !.pc = next]
    ELSE [Calls(operation) EXCEPT !.pc = "propagated",
                                  !.exc = AwaitRaised(operation, outcome)]

\* bundle.py 909: await child_session.coordinator.mount(...)
SpawnMount(outcome) ==
    /\ spawned.pc = "created"
    /\ spawned' = Awaited("mount", outcome, "mounted")
    /\ UNCHANGED applied
    /\ UNCHANGED <<cvars, rvars, hvars, mvars, pvars>>

\* bundle.py 910: await child_session.initialize()
SpawnInitialize(outcome) ==
    /\ spawned.pc = "mounted"
    /\ spawned' = Awaited("initialize", outcome, "initialized")
    /\ UNCHANGED applied
    /\ UNCHANGED <<cvars, rvars, hvars, mvars, pvars>>

\* faulty variant of InjectsMessages: the session id is not looked at
InjectsWhenMessages(parent_messages, session_id) == TruthyList(parent_messages)

\* bundle.py 915: if parent_messages and not session_id
InjectsMessages(parent_messages, session_id) ==
    TruthyList(parent_messages) /\ ~Truthy(session_id)

\* bundle.py 915-918: the parent's messages are handed to the child's context
\* if it has set_messages
SpawnInjectMessages(outcome) ==
    /\ spawned.pc = "initialized"
    /\ spawned' =
         IF InjectsMessages(spawned.args.parent_messages, spawned.args.session_id)
                /\ spawned.args.context = "messages"
         THEN IF outcome = "ok"
              THEN [spawned EXCEPT
                       !.pc = "injected",
                       !.events = Append(@, [call |-> "set_messages",
                                             arg |-> spawned.args.parent_messages])]
              ELSE [spawned EXCEPT
                       !.pc = "propagated",
                       !.exc = AwaitRaised("set_messages", outcome),
                       !.events = Append(@, [call |-> "set_messages",
                                             arg |-> spawned.args.parent_messages])]
         ELSE [spawned EXCEPT !.pc = "injected"]
    /\ UNCHANGED applied
    /\ UNCHANGED <<cvars, rvars, hvars, mvars, pvars>>

\* bundle.py 923-929: the system-prompt factory is installed if the bundle
\* has an instruction or context and the child's context takes one
SpawnInstallFactory(outcome) ==
    /\ spawned.pc = "injected"
    /\ spawned' =
         IF spawned.args.prompted /\ spawned.args.context # "none"
         THEN Awaited("set_system_prompt_factory", outcome, "ready")
         ELSE [spawned EXCEPT !.pc = "ready"]
    /\ UNCHANGED applied
    /\ UNCHANGED <<cvars, rvars, hvars, mvars, pvars>>

\* bundle.py 932-933: child_session.execute(instruction) is invoked
SpawnExecute ==
    /\ spawned.pc = "ready"
    /\ spawned' = [Calls("execute") EXCEPT !.pc = "executing"]
    /\ UNCHANGED applied
    /\ UNCHANGED <<cvars, rvars, hvars, mvars, pvars>>

\* faulty variant of AfterExecute: cleanup follows execute without finally
AfterExecuteReturned(outcome) ==
    IF outcome = "ok" THEN "finally" ELSE "propagated"

\* bundle.py 932-935: try ... finally, whatever execute did
AfterExecute(outcome) == "finally"

\* bundle.py 933: execute returns its response, raises or is cancelled
SpawnExecuteEnds(outcome) ==
    /\ spawned.pc = "executing"
    /\ spawned' = [spawned EXCEPT
                      !.pc = AfterExecute(outcome),
                      !.response = IF outcome = "ok" THEN "response" ELSE NoneVal,
                      !.exc = IF outcome = "ok" THEN ""
                              ELSE AwaitRaised("execute", outcome)]
    /\ UNCHANGED applied
    /\ UNCHANGED <<cvars, rvars, hvars, mvars, pvars>>

\* bundle.py 935: child_session.cleanup() is invoked
SpawnCleanup ==
    /\ spawned.pc = "finally"
    /\ spawned' = [Calls("cleanup") EXCEPT !.pc = "cleaning"]
    /\ UNCHANGED applied
    /\ UNCHANGED <<cvars, rvars, hvars, mvars, pvars>>

\* bundle.py 935-937: cleanup has ended; its exception replaces the one of
\* execute, otherwise that one goes on, otherwise spawn returns
SpawnCleanupEnds(outcome) ==
    /\ spawned.pc = "cleaning"
    /\ spawned' =
         IF outcome # "ok"
         THEN [spawned EXCEPT !.pc = "propagated",
                              !.exc = AwaitRaised("cleanup", outcome)]
         ELSE IF spawned.exc # "" THEN [spawned EXCEPT !.pc = "propagated"]
         ELSE [spawned EXCEPT
                  !.pc = "returned",
                  !.result = [output |-> spawned.response,
                              session_id |->
                                  ChildSessionId(spawned.args.session_id)]]
    /\ UNCHANGED applied
    /\ UNCHANGED <<cvars, rvars, hvars, mvars, pvars>>

SpawnInputs == \E arguments \in SpawnArguments : spawned = NewSpawn(arguments)

SpawnNext ==
    \/ \E outcome \in AwaitOutcomes : SpawnMount(outcome)
    \/ \E outcome \in AwaitOutcomes : SpawnInitialize(outcome)
    \/ \E outcome \in AwaitOutcomes : SpawnInjectMessages(outcome)
    \/ \E outcome \in AwaitOutcomes : SpawnInstallFactory(outcome)
    \/ SpawnExecute
    \/ \E outcome \in AwaitOutcomes : SpawnExecuteEnds(outcome)
    \/ SpawnCleanup
    \/ \E outcome \in AwaitOutcomes : SpawnCleanupEnds(outcome)

(***************************************************************************)
(* paths/resolution.py: parse_uri on URIs with a git+ or zip+ prefix, the  *)
(* URI a sequence of characters. applied holds the function applied, its   *)
(* argument and, once it has returned, what it returned.                   *)
(***************************************************************************)
StartsWith(s, prefix) ==
    Len(s) >= Len(prefix) /\ SubSeq(s, 1, Len(prefix)) = prefix

\* s.find(ch) + 1: the first position of a character of chs, 0 for none
Find(s, chs) == First({i \in 1..Len(s) : s[i] \in chs})

From(s, i) == SubSeq(s, i, Len(s))

\* s.split(ch)
RECURSIVE Split(_, _)
Split(s, ch) ==
    IF Find(s, {ch}) = 0 THEN <<s>>
    ELSE <<SubSeq(s, 1, Find(s, {ch}) - 1)>> \o Split(From(s, Find(s, {ch}) + 1), ch)

SubdirectoryKey == <<"s", "u", "b", "d", "i", "r", "e", "c", "t", "o", "r", "y", "=">>

\* _extract_subdirectory_from_fragment
extract_subdirectory_from_fragment(fragment) ==
    IF fragment = <<>> THEN <<>>
    ELSE LET parts == Split(fragment, "&")
             found == First({i \in 1..Len(parts) :
                                StartsWith(parts[i], SubdirectoryKey)})
         IN IF found = 0 THEN <<>>
            ELSE From(parts[found], Len(SubdirectoryKey) + 1)

\* the characters urllib allows in a scheme
SchemeChars == Lower \cup Upper \cup Digits \cup {"+", "-", "."}

\* urllib.parse.urlparse on a URL without fragment and parameters: scheme,
\* netloc and path
urlparse(url) ==
    LET colon == Find(url, {":"})
        schemed == colon > 1 /\ \A i \in 1..(colon - 1) : url[i] \in SchemeChars
        rest == IF schemed THEN From(url, colon + 1) ELSE url
        located == StartsWith(rest, <<"/", "/">>)
        after == IF located THEN From(rest, 3) ELSE rest
        stop == IF located THEN Find(after, {"/", "?"}) ELSE 1
        netloc == IF ~located THEN <<>>
                  ELSE IF stop = 0 THEN after ELSE SubSeq(after, 1, stop - 1)
        tail == IF ~located THEN rest ELSE IF stop = 0 THEN <<>> ELSE From(after, stop)
        query == Find(tail, {"?"})
    IN [scheme |-> IF schemed THEN SubSeq(url, 1, colon - 1) ELSE <<>>,
        netloc |-> netloc,
        path |-> IF query = 0 THEN tail ELSE SubSeq(tail, 1, query - 1)]

\* s.lstrip("/")
RECURSIVE LStripSlash(_)
LStripSlash(s) == IF s # <<>> /\ Head(s) = "/" THEN LStripSlash(Tail(s)) ELSE s

\* re.match(r"^([^@]+)@([^/]+)(.*)$", path): the three groups, matched FALSE
\* for no match
MatchRef(path) ==
    LET at == Find(path, {"@"})
        after == From(path, at + 1)
        slash == Find(after, {"/"})
        group2 == IF slash = 0 THEN after ELSE SubSeq(after, 1, slash - 1)
    IN IF at <= 1 \/ group2 = <<>> THEN [matched |-> FALSE]
       ELSE [matched |-> TRUE, group1 |-> SubSeq(path, 1, at - 1), group2 |-> group2,
             group3 |-> IF slash = 0 THEN <<>> ELSE From(after, slash)]

ParsedURI(scheme, host, path, ref, subpath) ==
    [scheme |-> scheme, host |-> host, path |-> path, ref |-> ref,
     subpath |-> subpath]

\* faulty variant of SubpathOf: the legacy subpath wins
LegacyFirst(fragment_subpath, legacy_subpath) ==
    IF legacy_subpath # <<>> THEN legacy_subpath ELSE fragment_subpath

\* resolution.py 210: fragment_subpath if fragment_subpath else legacy_subpath
SubpathOf(fragment_subpath, legacy_subpath) ==
    IF fragment_subpath # <<>> THEN fragment_subpath ELSE legacy_subpath

\* _parse_vcs_uri
parse_vcs_uri(uri, prefix) ==
    LET stripped == From(uri, Len(prefix) + 1)
        hash == Find(stripped, {"#"})
        uri_without_prefix == IF hash = 0 THEN stripped
                              ELSE SubSeq(stripped, 1, hash - 1)
        fragment_subpath ==
            IF hash = 0 THEN <<>>
            ELSE extract_subdirectory_from_fragment(From(stripped, hash + 1))
        parsed == urlparse(uri_without_prefix)
        match == IF Find(parsed.path, {"@"}) = 0 THEN [matched |-> FALSE]
                 ELSE MatchRef(parsed.path)
    IN ParsedURI(prefix \o parsed.scheme, parsed.netloc,
                 IF match.matched THEN match.group1 ELSE parsed.path,
                 IF match.matched THEN match.group2 ELSE <<>>,
                 SubpathOf(fragment_subpath,
                           IF match.matched THEN LStripSlash(match.group3)
                           ELSE <<>>))

GitPrefix == <<"g", "i", "t", "+">>

ZipPrefix == <<"z", "i", "p", "+">>

\* parse_uri on a URI that starts with git+ or zip+
parse_uri(uri) ==
    IF StartsWith(uri, GitPrefix) THEN parse_vcs_uri(uri, GitPrefix)
    ELSE parse_vcs_uri(uri, ZipPrefix)

\* the parts URIs are written from: prefix, scheme, host, path, ref, legacy
\* subpath and fragment; an empty ref stands for no @ref part, NoPath for no
\* fragment
UriParts ==
    [prefix : {GitPrefix, ZipPrefix},
     scheme : {<<"h", "t", "t", "p", "s">>, <<"s", "s", "h">>},
     host : {<<"h", ".", "c">>, <<"g", "@", "h", ".", "c">>},
     path : {<<"/", "o", "/", "r">>},
     ref : {<<>>, <<"m">>, <<"v", "1", ".", "0">>},
     legacy : {<<>>, <<"s">>, <<"s", "/", "t">>},
     subdirectory : {NoPath, <<>>, <<"x">>, <<"x", "/", "y">>},
     egg : BOOLEAN]

\* git+<scheme>://<host><path>[@<ref>[/<legacy>]][#[egg=e&]subdirectory=<p>]
WriteUri(parts) ==
    parts.prefix \o parts.scheme \o <<":", "/", "/">> \o parts.host \o parts.path
        \o (IF parts.ref = <<>> THEN <<>>
            ELSE <<"@">> \o parts.ref
                    \o (IF parts.legacy = <<>> THEN <<>> ELSE <<"/">> \o parts.legacy))
        \o (IF parts.subdirectory = NoPath
            THEN (IF parts.egg THEN <<"#", "e", "g", "g", "=", "e">> ELSE <<>>)
            ELSE <<"#">> \o (IF parts.egg THEN <<"e", "g", "g", "=", "e", "&">> ELSE <<>>)
                    \o SubdirectoryKey \o parts.subdirectory)

ParseUriInputs ==
    \E parts \in UriParts :
        applied = [fn |-> "parse_uri", pc |-> "call", parts |-> parts,
                   arg |-> WriteUri(parts), ret |-> NoneVal]

\* parse_uri(uri) is called and returns
ParseUri ==
    /\ applied.fn = "parse_uri"
    /\ applied.pc = "call"
    /\ applied' = [applied EXCEPT !.pc = "returned", !.ret = parse_uri(applied.arg)]
    /\ UNCHANGED spawned
    /\ UNCHANGED <<cvars, rvars, hvars, mvars, pvars>>

(***************************************************************************)
(* validator.py: BundleValidator.validate on bundles whose field values    *)
(* carry their Python type.                                                *)
(***************************************************************************)
PyNone == [type |-> "NoneType"]

PyStr(value) == [type |-> "str", value |-> value]

PyInt(number) == [type |-> "int", number |-> number]

PyList(elements) == [type |-> "list", elements |-> elements]

PyDict(items) == [type |-> "dict", items |-> items]

\* isinstance(value, dict), isinstance(value, str)
IsDict(value) == value.type = "dict"

IsStr(value) == value.type = "str"

\* d.get(key)
PyGet(d, key) == IF key \in DOMAIN d.items THEN d.items[key] ELSE PyNone

\* bool(value)
PyTruthy(value) ==
    CASE value.type = "NoneType" -> FALSE
      [] value.type = "str" -> value.value # ""
      [] value.type = "int" -> value.number # 0
      [] value.type = "list" -> value.elements # <<>>
      [] OTHER -> DOMAIN value.items # {}

\* ValidationResult() and add_error, add_warning
NewValidationResult == [valid |-> TRUE, errors |-> <<>>, warnings |-> <<>>]

add_error(result, message) ==
    [result EXCEPT !.errors = Append(@, message), !.valid = FALSE]

add_warning(result, message) == [result EXCEPT !.warnings = Append(@, message)]

\* _validate_required_fields
validate_required_fields(bundle, result) ==
    IF ~PyTruthy(bundle.name) THEN add_error(result, <<"Bundle must have a name">>)
    ELSE result

\* _validate_module_entry
validate_module_entry(list_name, index, module, result) ==
    IF ~IsDict(module)
    THEN add_error(result, <<list_name, index, "Must be a dict", module.type>>)
    ELSE LET named == IF "module" \notin DOMAIN module.items
                      THEN add_error(result, <<list_name, index,
                                               "Missing required 'module' field">>)
                      ELSE result
         IN IF "config" \in DOMAIN module.items /\ ~IsDict(module.items["config"])
            THEN add_error(named, <<list_name, index, "'config' must be a dict",
                                    module.items["config"].type>>)
            ELSE named

\* the loop over one module list, from entry i on
RECURSIVE validate_module_list(_, _, _, _)
validate_module_list(list_name, modules, i, result) ==
    IF i > Len(modules) THEN result
    ELSE validate_module_list(list_name, modules, i + 1,
             validate_module_entry(list_name, i - 1, modules[i], result))

\* _validate_module_lists
validate_module_lists(bundle, result) ==
    validate_module_list("hooks", bundle.hooks, 1,
        validate_module_list("tools", bundle.tools, 1,
            validate_module_list("providers", bundle.providers, 1, result)))

\* faulty variant of validate_session_field: nothing is reported
validate_session_field_never(field_name, value, result) == result

\* validator.py 132-138: the check made on session.orchestrator and on
\* session.context
validate_session_field(field_name, value, result) ==
    IF value # PyNone /\ ~IsStr(value)
    THEN add_error(result, <<field_name, "Must be a string", value.type>>)
    ELSE result

\* _validate_session
validate_session(bundle, result) ==
    IF ~PyTruthy(bundle.session) THEN result
    ELSE IF ~IsDict(bundle.session)
    THEN add_error(result, <<"session", "Must be a dict", bundle.session.type>>)
    ELSE validate_session_field("session.context", PyGet(bundle.session, "context"),
             validate_session_field("session.orchestrator",
                                    PyGet(bundle.session, "orchestrator"), result))

\* the loop over the agents in the order of the dict, from entry i on
RECURSIVE validate_agents(_, _, _)
validate_agents(agents, i, result) ==
    IF i > Len(agents) THEN result
    ELSE validate_agents(agents, i + 1,
             IF ~IsDict(agents[i].value)
             THEN add_error(result, <<"agents", agents[i].name, "Must be a dict",
                                      agents[i].value.type>>)
             ELSE result)

\* the loop over the context paths, from entry i on
RECURSIVE validate_context(_, _, _)
validate_context(context, i, result) ==
    IF i > Len(context) THEN result
    ELSE validate_context(context, i + 1,
             IF ~context[i].exists
             THEN add_warning(result, <<"context", context[i].name,
                                        "Path does not exist">>)
             ELSE result)

\* _validate_resources
validate_resources(bundle, result) ==
    LET checked == validate_agents(bundle.agents, 1, result)
    IN IF bundle.base_path THEN validate_context(bundle.context, 1, checked)
       ELSE checked

\* BundleValidator.validate
validate(bundle) ==
    validate_resources(bundle,
        validate_session(bundle,
            validate_module_lists(bundle,
                validate_required_fields(bundle, NewValidationResult))))

\* a module spec, and a session sub-field given as a record
ModuleSpec ==
    PyDict(("module" :> PyStr("m")) @@ ("source" :> PyStr("git+https://h.c/o/r")))

\* a key the session does not have
Absent == [type |-> "absent"]

\* what session.orchestrator and session.context may be
SessionFieldChoices == {Absent, PyNone, PyStr("loop-basic"), ModuleSpec, PyInt(3)}

SessionOf(orchestrator, context) ==
    PyDict([key \in {k \in {"orchestrator", "context"} :
                        (IF k = "orchestrator" THEN orchestrator ELSE context)
                            # Absent} |->
               IF key = "orchestrator" THEN orchestrator ELSE context])

ModuleListChoices ==
    {<<>>, <<ModuleSpec>>, <<PyDict("source" :> PyStr("s"))>>, <<PyStr("m")>>,
     <<ModuleSpec, PyDict(("module" :> PyStr("m")) @@ ("config" :> PyStr("c")))>>}

ValidatorBundles ==
    [name : {PyStr(""), PyStr("b")},
     providers : ModuleListChoices,
     tools : {<<>>, <<ModuleSpec>>},
     hooks : {<<>>},
     session : {PyDict(<<>>), PyList(<<"x">>)}
                  \cup {SessionOf(orchestrator, context) :
                           orchestrator \in SessionFieldChoices,
                           context \in SessionFieldChoices \ {PyNone}},
     agents : {<<>>, <<[name |-> "a", value |-> PyDict(<<>>)]>>,
               <<[name |-> "a", value |-> PyStr("x")]>>},
     base_path : BOOLEAN,
     context : {<<[name |-> "c", exists |-> FALSE]>>}]

ValidateInputs ==
    \E bundle \in ValidatorBundles :
        applied = [fn |-> "validate", pc |-> "call", arg |-> bundle, ret |-> NoneVal]

\* validate_bundle(bundle) is called and returns
Validate ==
    /\ applied.fn = "validate"
    /\ applied.pc = "call"
    /\ applied' = [applied EXCEPT !.pc = "returned", !.ret = validate(applied.arg)]
    /\ UNCHANGED spawned
    /\ UNCHANGED <<cvars, rvars, hvars, mvars, pvars>>

(***************************************************************************)
(* bundle.py: Bundle.prepare(install_deps, source_resolver), one call.     *)
(* ModuleActivator.activate_bundle_package and the activation of a module  *)
(* inside activate_all are awaited calls that return or raise; events      *)
(* records when each is invoked and when it returns.                       *)
(***************************************************************************)
SpecM1 == PyDict(("module" :> PyStr("m1")) @@ ("source" :> PyStr("s1")))

SpecM2 == PyDict(("module" :> PyStr("m2")) @@ ("source" :> PyStr("s2")))

\* a spec without a source, and one without a module
SpecNoSource == PyDict("module" :> PyStr("m3"))

SpecNoModule == PyDict("source" :> PyStr("s4"))

BasePathEntry(namespace, path) == [namespace |-> namespace, path |-> path]

\* source_base_paths as the list of its items, in insertion order
SourceBasePathChoices ==
    {<<>>,
     <<BasePathEntry("r", <<"r">>)>>,
     <<BasePathEntry("r", <<"r">>), BasePathEntry("i", <<"i">>)>>,
     <<BasePathEntry("i", <<"i">>), BasePathEntry("j", <<"j">>)>>,
     <<BasePathEntry("n", NoPath), BasePathEntry("i", <<"i">>)>>}

PrepareBundles ==
    [base_path : {NoPath, <<"r">>},
     source_base_paths : SourceBasePathChoices,
     session : {SessionOf(orchestrator, context) :
                   orchestrator \in {Absent, PyStr("loop-basic"), SpecM1, SpecNoSource},
                   context \in {Absent, SpecM2}},
     providers : {<<>>, <<SpecM1>>, <<SpecNoSource, SpecM2>>, <<SpecNoModule>>},
     tools : {<<>>, <<SpecM2>>},
     hooks : {<<>>}]

\* source_resolver: none given, one that returns the source it is given, one
\* that overrides the source of module m1
SourceResolvers == {"none", "same", "override"}

SourceResolved(source_resolver, module, source) ==
    IF source_resolver = "override" /\ module = PyStr("m1") THEN PyStr("o1") ELSE source

\* faulty variant of resolve_source: the dict passed is updated in place
resolve_source_in_place(source_resolver, mod_spec) ==
    IF source_resolver # "none" /\ {"module", "source"} \subseteq DOMAIN mod_spec.items
    THEN LET resolved == SourceResolved(source_resolver, mod_spec.items["module"],
                                        mod_spec.items["source"])
             updated == PyDict([mod_spec.items EXCEPT !["source"] = resolved])
         IN [passed |-> updated, result |-> updated,
             calls |-> <<[module |-> mod_spec.items["module"],
                          source |-> mod_spec.items["source"]]>>]
    ELSE [passed |-> mod_spec, result |-> mod_spec, calls |-> <<>>]

\* bundle.py 270-276: resolve_source(mod_spec): the dict returned, the dict
\* passed as it is afterwards, and the calls of source_resolver made
resolve_source(source_resolver, mod_spec) ==
    IF source_resolver # "none" /\ {"module", "source"} \subseteq DOMAIN mod_spec.items
    THEN LET resolved == SourceResolved(source_resolver, mod_spec.items["module"],
                                        mod_spec.items["source"])
         IN [passed |-> mod_spec,
             result |-> IF resolved # mod_spec.items["source"]
                        THEN PyDict([mod_spec.items EXCEPT !["source"] = resolved])
                        ELSE mod_spec,
             calls |-> <<[module |-> mod_spec.items["module"],
                          source |-> mod_spec.items["source"]]>>]
    ELSE [passed |-> mod_spec, result |-> mod_spec, calls |-> <<>>]

\* bundle.py 279-293: the specs of the mount plan that are dicts with a
\* source: session.orchestrator, session.context, then providers, tools and
\* hooks in order.  to_mount_plan copies the lists and keeps their dicts.
WithSource(specs) ==
    SelectSeq(specs, LAMBDA mod_spec : IsDict(mod_spec) /\ "source" \in DOMAIN mod_spec.items)

SpecsToActivate(bundle) ==
    WithSource(<<PyGet(bundle.session, "orchestrator"), PyGet(bundle.session, "context")>>)
        \o WithSource(bundle.providers) \o WithSource(bundle.tools) \o WithSource(bundle.hooks)

\* faulty variant of InstallsIncluded: every path that is set is installed
InstallsEverySet(bundle_path, base_path) == bundle_path # NoPath

\* bundle.py 263: if bundle_path and bundle_path != self.base_path
InstallsIncluded(bundle_path, base_path) == bundle_path # NoPath /\ bundle_path # base_path

Event(name, of) == [name |-> name, of |-> of]

\* the module name and the source, as activate receives them
ModuleToActivate(mod_spec) == <<mod_spec.items["module"].value, mod_spec.items["source"].value>>

PrepareInputs ==
    \E bundle \in PrepareBundles, install_deps \in BOOLEAN, source_resolver \in SourceResolvers :
        applied = [fn |-> "prepare", pc |-> "call", bundle |-> bundle,
                   install_deps |-> install_deps, source_resolver |-> source_resolver,
                   idx |-> 0, events |-> <<>>, modules |-> <<>>, passed |-> <<>>,
                   resolver_calls |-> <<>>, module_paths |-> <<>>, exc |-> ""]

\* an awaited call of prepare has returned, or raised and left prepare
PrepareAwaited(name, raises, next) ==
    IF raises THEN [applied EXCEPT !.pc = "raised", !.exc = name]
    ELSE [applied EXCEPT !.pc = next, !.idx = @ + 1,
                         !.events = Append(@, Event(name, applied.events[Len(applied.events)].of))]

\* bundle.py 246-259: the mount plan and the activator are made; with
\* install_deps and a base_path, activate_bundle_package(self.base_path) is
\* invoked
PrepareInstallOwn ==
    /\ applied.fn = "prepare"
    /\ applied.pc = "call"
    /\ applied' =
         IF applied.install_deps /\ applied.bundle.base_path # NoPath
         THEN [applied EXCEPT !.pc = "own",
                              !.events = Append(@, Event("install", applied.bundle.base_path))]
         ELSE IF applied.install_deps THEN [applied EXCEPT !.pc = "included", !.idx = 1]
         ELSE [applied EXCEPT !.pc = "collect"]
    /\ UNCHANGED spawned
    /\ UNCHANGED <<cvars, rvars, hvars, mvars, pvars>>

\* bundle.py 259: activate_bundle_package(self.base_path) ends
PrepareInstallOwnEnds ==
    /\ applied.fn = "prepare"
    /\ applied.pc = "own"
    /\ \E raises \in BOOLEAN : applied' = PrepareAwaited("installed", raises, "included")
    /\ UNCHANGED spawned
    /\ UNCHANGED <<cvars, rvars, hvars, mvars, pvars>>

\* bundle.py 262-264: the next item of source_base_paths; its package is
\* installed when the path is set and is not the bundle's own
PrepareInstallIncluded ==
    /\ applied.fn = "prepare"
    /\ applied.pc = "included"
    /\ LET items == applied.bundle.source_base_paths
       IN applied' =
            IF applied.idx > Len(items) THEN [applied EXCEPT !.pc = "collect"]
            ELSE IF InstallsIncluded(items[applied.idx].path, applied.bundle.base_path)
            THEN [applied EXCEPT !.pc = "installing",
                                 !.events = Append(@, Event("install", items[applied.idx].path))]
            ELSE [applied EXCEPT !.idx = @ + 1]
    /\ UNCHANGED spawned
    /\ UNCHANGED <<cvars, rvars, hvars, mvars, pvars>>

\* bundle.py 264: activate_bundle_package(bundle_path) ends
PrepareInstallIncludedEnds ==
    /\ applied.fn = "prepare"
    /\ applied.pc = "installing"
    /\ \E raises \in BOOLEAN : applied' = PrepareAwaited("installed", raises, "included")
    /\ UNCHANGED spawned
    /\ UNCHANGED <<cvars, rvars, hvars, mvars, pvars>>

RECURSIVE ResolveSources(_, _, _)
\* bundle.py 279-293: resolve_source on each spec with a source, in order
ResolveSources(source_resolver, specs, i) ==
    IF i > Len(specs) THEN [modules |-> <<>>, passed |-> <<>>, calls |-> <<>>]
    ELSE LET first == resolve_source(source_resolver, specs[i])
             rest == ResolveSources(source_resolver, specs, i + 1)
         IN [modules |-> <<first.result>> \o rest.modules,
             passed |-> <<first.passed>> \o rest.passed,
             calls |-> first.calls \o rest.calls]

\* bundle.py 267-293: modules_to_activate is collected
PrepareCollect ==
    /\ applied.fn = "prepare"
    /\ applied.pc = "collect"
    /\ LET collected == ResolveSources(applied.source_resolver,
                                       SpecsToActivate(applied.bundle), 1)
       IN applied' = [applied EXCEPT !.pc = "activate", !.idx = 1,
                                     !.modules = collected.modules,
                                     !.passed = collected.passed,
                                     !.resolver_calls = collected.calls]
    /\ UNCHANGED spawned
    /\ UNCHANGED <<cvars, rvars, hvars, mvars, pvars>>

\* bundle.py 296 and activator.py 91-98: activate_all takes the next module;
\* a spec without a module name or a source is skipped; after the last one
\* prepare returns the PreparedBundle
PrepareActivate ==
    /\ applied.fn = "prepare"
    /\ applied.pc = "activate"
    /\ LET modules == applied.modules
       IN applied' =
            IF applied.idx > Len(modules) THEN [applied EXCEPT !.pc = "returned"]
            ELSE IF PyTruthy(PyGet(modules[applied.idx], "module"))
                    /\ PyTruthy(PyGet(modules[applied.idx], "source"))
            THEN [applied EXCEPT !.pc = "activating",
                                 !.events = Append(@, Event("activate",
                                                            ModuleToActivate(modules[applied.idx])))]
            ELSE [applied EXCEPT !.idx = @ + 1]
    /\ UNCHANGED spawned
    /\ UNCHANGED <<cvars, rvars, hvars, mvars, pvars>>

\* activator.py 98: activate(module_name, source_uri) ends
PrepareActivateEnds ==
    /\ applied.fn = "prepare"
    /\ applied.pc = "activating"
    /\ \E raises \in BOOLEAN : applied' = PrepareAwaited("activated", raises, "activate")
    /\ UNCHANGED spawned
    /\ UNCHANGED <<cvars, rvars, hvars, mvars, pvars>>

PrepareNext ==
    \/ PrepareInstallOwn
    \/ PrepareInstallOwnEnds
    \/ PrepareInstallIncluded
    \/ PrepareInstallIncludedEnds
    \/ PrepareCollect
    \/ PrepareActivate
    \/ PrepareActivateEnds

(***************************************************************************)
(* io/files.py: read_with_retry and write_with_retry with the default      *)
(* max_retries and initial_delay.  What the filesystem does on each try is *)
(* fixed beforehand (tries); a try is one pass of the loop body, the sleep *)
(* that follows a retried failure is a step of its own.  Delays are in     *)
(* milliseconds.                                                           *)
(***************************************************************************)
\* errno of the OSError that is retried (files.py 42 and 84)
EIO == 5

\* initial_delay = 0.1
InitialDelay == 100

\* errno values of the OSErrors raised: ENOENT, EIO, EACCES
Errnos == {2, EIO, 13}

NoError == [type |-> "none", errno |-> 0, at |-> "", try |-> 0]

\* OSError(errno) raised by the call named, on the given try of the script
OSErrorAt(errno, at, try) == [type |-> "OSError", errno |-> errno, at |-> at, try |-> try]

\* read_text raising UnicodeDecodeError, which is no OSError
DecodeErrorAt(try) == [type |-> "UnicodeDecodeError", errno |-> 0, at |-> "read_text", try |-> try]

\* what one try of path.read_text can do
ReadOutcomes(try) ==
    {NoError, DecodeErrorAt(try)} \cup {OSErrorAt(errno, "read_text", try) : errno \in Errnos}

\* what one try of path.parent.mkdir followed by path.write_text can do
WriteOutcomes(try) ==
    {NoError} \cup {OSErrorAt(errno, at, try) : errno \in Errnos, at \in {"mkdir", "write_text"}}

\* the filesystem's answers to the tries of one operation
Scripts(fn) ==
    {script \in [1..MaxRetries -> UNION {ReadOutcomes(try) \cup WriteOutcomes(try) : try \in 1..MaxRetries}] :
        \A try \in 1..MaxRetries :
            script[try] \in (IF fn = "read_with_retry" THEN ReadOutcomes(try) ELSE WriteOutcomes(try))}

Called(name, delay) == [name |-> name, delay |-> delay]

\* the calls one try makes: mkdir comes before write_text and a failing mkdir
\* leaves write_text uncalled
CallsOfTry(fn, outcome) ==
    IF fn = "read_with_retry" THEN <<Called("read_text", 0)>>
    ELSE IF outcome.at = "mkdir" THEN <<Called("mkdir", 0)>>
    ELSE <<Called("mkdir", 0), Called("write_text", 0)>>

RetryInputs ==
    \E fn \in {"read_with_retry", "write_with_retry"} : \E script \in Scripts(fn) :
        \E content \in {<<"x">>, <<"y", "z">>} :
            applied = [fn |-> fn, pc |-> "try", script |-> script, content |-> content,
                       attempt |-> 0, delay |-> InitialDelay, last_error |-> NoError,
                       called |-> <<>>, ret |-> NoContent, exc |-> NoError]

\* faulty variant of RetriesAfter: every OSError is retried
RetriesAfterAnyOSError(error, attempt, max_retries) ==
    error.type = "OSError" /\ attempt < max_retries - 1

\* files.py 42 and 84: e.errno == 5 and attempt < max_retries - 1, inside
\* except OSError
RetriesAfter(error, attempt, max_retries) ==
    error.type = "OSError" /\ error.errno = EIO /\ attempt < max_retries - 1

\* files.py 38-52 and 78-94: one pass of the loop body up to the sleep, for
\* attempt in range(max_retries).  The last pass never sleeps, so the loop
\* never runs out and the raise after it (files.py 55 and 97) is not reached.
RetryAttempt ==
    /\ applied.fn \in {"read_with_retry", "write_with_retry"}
    /\ applied.pc = "try"
    /\ applied.attempt < MaxRetries
    /\ LET outcome == applied.script[applied.attempt + 1]
           tried == [applied EXCEPT !.called = @ \o CallsOfTry(applied.fn, outcome)]
       IN applied' =
            CASE outcome.type = "none" ->
                   [tried EXCEPT !.pc = "returned",
                                 !.ret = IF applied.fn = "read_with_retry"
                                         THEN applied.content ELSE NoContent]
              [] outcome.type = "OSError"
                   /\ RetriesAfter(outcome, applied.attempt, MaxRetries) ->
                   [tried EXCEPT !.pc = "sleep", !.last_error = outcome]
              [] outcome.type = "OSError" ->
                   [tried EXCEPT !.pc = "raised", !.last_error = outcome, !.exc = outcome]
              [] OTHER ->
                   [tried EXCEPT !.pc = "raised", !.exc = outcome]
    /\ UNCHANGED spawned
    /\ UNCHANGED <<cvars, rvars, hvars, mvars, pvars>>

\* files.py 50-51 and 92-93: await asyncio.sleep(delay); delay *= 2, then the
\* next pass of the loop
RetrySleep ==
    /\ applied.fn \in {"read_with_retry", "write_with_retry"}
    /\ applied.pc = "sleep"
    /\ applied' = [applied EXCEPT !.called = Append(@, Called("sleep", applied.delay)),
                                  !.delay = @ * 2, !.attempt = @ + 1, !.pc = "try"]
    /\ UNCHANGED spawned
    /\ UNCHANGED <<cvars, rvars, hvars, mvars, pvars>>

RetryNext ==
    \/ RetryAttempt
    \/ RetrySleep

(***************************************************************************)
(* sources/git.py: GitSourceHandler.resolve, called up to MaxResolves      *)
(* times in one process on URIs of one repository.  fsys maps each clone   *)
(* root of the cache to what is there: nothing, a directory left by an     *)
(* interrupted clone, or the tree a successful clone has written (with the *)
(* number of the clone that wrote it).  resolve has no await, so a call    *)
(* runs to its end before the next starts; its steps are kept apart to     *)
(* show the cache between them.                                            *)
(***************************************************************************)
MaxResolves == 3

GitScheme == GitPrefix \o <<"h", "t", "t", "p", "s">>

\* the URIs resolved: one repository, two refs, the root or a subdirectory
\* that the repository has (x) or has not (gone)
GitParsed ==
    {ParsedURI(GitScheme, <<"h", ".", "c">>, <<"/", "o", "/", "r">>, ref, subpath) :
        ref \in {<<>>, <<"m">>}, subpath \in {<<>>, <<"x">>, <<"g", "o", "n", "e">>}}

\* the directories below the root that a clone of the repository holds
RemoteSubpaths == {<<"x">>}

\* git.py 40-41: scheme without git+, then ://host/path
GitUrl(parsed) ==
    From(parsed.scheme, Len(GitPrefix) + 1) \o <<":", "/", "/">> \o parsed.host \o parsed.path

\* git.py 44-47: cache_dir / "<repo_name>-<sha256(git_url@ref)[:16]>", the
\* digest taken as injective
CachePath(parsed) ==
    [git_url |-> GitUrl(parsed),
     ref |-> IF parsed.ref # <<>> THEN parsed.ref ELSE <<"H", "E", "A", "D">>]

NoTree == [state |-> "absent", subpaths |-> {}, clone |-> 0]

PartialTree == [state |-> "partial", subpaths |-> {}, clone |-> 0]

ClonedTree(number) == [state |-> "cloned", subpaths |-> RemoteSubpaths, clone |-> number]

\* path.exists() for the clone root (subpath empty) or a path below it
TreeHas(tree, subpath) ==
    tree.state # "absent" /\ (subpath = <<>> \/ subpath \in tree.subpaths)

ResolvedSource(active_path, source_root) ==
    [active_path |-> active_path, source_root |-> source_root]

NoSource == [active_path |-> NoPath, source_root |-> NoPath]

\* git.py 52-54 and 81-83: cache_path / parsed.subpath, written as the pair
ResultPath(parsed) == [root |-> CachePath(parsed), subpath |-> parsed.subpath]

GitInputs ==
    /\ fsys \in [{CachePath(parsed) : parsed \in GitParsed} -> {NoTree, PartialTree}]
    /\ inv = <<>>
    /\ applied = [fn |-> "git_resolve", pc |-> "idle", parsed |-> NoneVal, resolves |-> 0,
                  clones |-> 0, hit |-> FALSE, ret |-> NoSource, exc |-> ""]

\* resolve(parsed, cache_dir) is called
GitResolveCall(parsed) ==
    /\ applied.fn = "git_resolve"
    /\ applied.pc \in {"idle", "returned", "raised"}
    /\ applied.resolves < MaxResolves
    /\ applied' = [applied EXCEPT !.pc = "check", !.parsed = parsed, !.resolves = @ + 1,
                                  !.hit = FALSE, !.ret = NoSource, !.exc = ""]
    /\ UNCHANGED <<fsys, inv, spawned>>
    /\ UNCHANGED <<cvars, rvars, hvars, mvars>>

\* git.py 50-55: cache_path.exists() and result_path.exists()
CacheHit(tree, subpath) == TreeHas(tree, <<>>) /\ TreeHas(tree, subpath)

\* git.py 49-55: Check if already cached
GitCheckCached ==
    /\ applied.fn = "git_resolve"
    /\ applied.pc = "check"
    /\ LET cache_path == CachePath(applied.parsed)
       IN applied' =
            IF CacheHit(fsys[cache_path], applied.parsed.subpath)
            THEN [applied EXCEPT !.pc = "returned", !.hit = TRUE,
                                 !.ret = ResolvedSource(ResultPath(applied.parsed), cache_path)]
            ELSE [applied EXCEPT !.pc = "remove"]
    /\ UNCHANGED <<fsys, inv, spawned>>
    /\ UNCHANGED <<cvars, rvars, hvars, mvars>>

\* git.py 57-62: if cache_path.exists(): shutil.rmtree(cache_path)
GitRemove ==
    /\ applied.fn = "git_resolve"
    /\ applied.pc = "remove"
    /\ applied' = [applied EXCEPT !.pc = "clone"]
    /\ fsys' = [fsys EXCEPT ![CachePath(applied.parsed)] = NoTree]
    /\ UNCHANGED <<inv, spawned>>
    /\ UNCHANGED <<cvars, rvars, hvars, mvars>>

\* git.py 64-78: git clone --depth 1 [--branch ref] git_url cache_path; a
\* failing clone leaves nothing and raises BundleNotFoundError
GitClone(succeeds) ==
    /\ applied.fn = "git_resolve"
    /\ applied.pc = "clone"
    /\ IF succeeds
       THEN /\ applied' = [applied EXCEPT !.pc = "cloned", !.clones = @ + 1]
            /\ fsys' = [fsys EXCEPT ![CachePath(applied.parsed)] = ClonedTree(applied.clones + 1)]
       ELSE /\ applied' = [applied EXCEPT !.pc = "raised", !.exc = "BundleNotFoundError"]
            /\ UNCHANGED fsys
    /\ UNCHANGED <<inv, spawned>>
    /\ UNCHANGED <<cvars, rvars, hvars, mvars>>

\* git.py 80-88: the path with the subpath must exist after the clone
GitReturn ==
    /\ applied.fn = "git_resolve"
    /\ applied.pc = "cloned"
    /\ LET cache_path == CachePath(applied.parsed)
       IN applied' =
            IF TreeHas(fsys[cache_path], applied.parsed.subpath)
            THEN [applied EXCEPT !.pc = "returned",
                                 !.ret = ResolvedSource(ResultPath(applied.parsed), cache_path)]
            ELSE [applied EXCEPT !.pc = "raised", !.exc = "BundleNotFoundError"]
    /\ UNCHANGED <<fsys, inv, spawned>>
    /\ UNCHANGED <<cvars, rvars, hvars, mvars>>

GitCalls == \E parsed \in GitParsed : GitResolveCall(parsed)

GitClones == \E succeeds \in BOOLEAN : GitClone(succeeds)

GitNext ==
    \/ GitCalls
    \/ GitCheckCached
    \/ GitRemove
    \/ GitClones
    \/ GitReturn

(***************************************************************************)
(* The filesystem the registry loads from.                                 *)
(*   /a/bundle.md            root bundle "A"                               *)
(*   /a/sub/bundle.yaml      sub-bundle "S" below root bundle A            *)
(*   /b/bundle.yaml          bundle "B"                                    *)
(*   /c/bundle.md            bundle "C"                                    *)
(*   /x/sub/bundle.yaml      bundle "N", no bundle file in /x              *)
(*   /bad                    a directory without a bundle file             *)
(* /gone does not exist.                                                   *)
(***************************************************************************)
DirA == <<"a">>

DirASub == <<"a", "sub">>

DirB == <<"b">>

DirC == <<"c">>

DirX == <<"x">>

DirXSub == <<"x", "sub">>

DirBad == <<"bad">>

DirGone == <<"gone">>

FSDirs == {<<>>, DirA, DirASub, DirB, DirC, DirX, DirXSub, DirBad}

FileA == DirA \o <<"bundle.md">>

FileS == DirASub \o <<"bundle.yaml">>

FileB == DirB \o <<"bundle.yaml">>

FileC == DirC \o <<"bundle.md">>

FileN == DirXSub \o <<"bundle.yaml">>

BundleFiles == {FileA, FileS, FileB, FileC, FileN}

Exists(path) == path \in FSDirs \cup BundleFiles

IsDir(path) == path \in FSDirs

IsFile(path) == path \in BundleFiles

Parent(path) == IF path = <<>> THEN <<>> ELSE SubSeq(path, 1, Len(path) - 1)

\* path.suffix of the file names that occur
Suffix(path) ==
    IF path = <<>> THEN ""
    ELSE CASE path[Len(path)] = "bundle.md" -> ".md"
           [] path[Len(path)] = "bundle.yaml" -> ".yaml"
           [] OTHER -> ""

\* the path segments that occur, in string order
SegOrder == <<"a", "b", "bad", "bundle.md", "bundle.yaml", "c", "gone", "sub", "x">>

SegRank(seg) == CHOOSE i \in 1..Len(SegOrder) : SegOrder[i] = seg

\* p >= q on paths: pathlib compares the lists of parts lexicographically
RECURSIVE PathGE(_, _)
PathGE(p, q) ==
    IF q = <<>> THEN TRUE
    ELSE IF p = <<>> THEN FALSE
    ELSE IF Head(p) = Head(q) THEN PathGE(Tail(p), Tail(q))
    ELSE SegRank(Head(p)) > SegRank(Head(q))

(***************************************************************************)
(* sources/resolver.py, sources/file.py                                    *)
(***************************************************************************)
NotFound == [ok |-> FALSE, active |-> NoPath, root |-> NoPath]

\* FileSourceHandler.resolve: source_root is the URI's path, active_path is
\* source_root / subpath, which must exist
FileResolve(uri) ==
    LET source_root == uri.path
        active_path == source_root \o uri.sub
    IN IF Exists(active_path)
       THEN [ok |-> TRUE, active |-> active_path, root |-> source_root]
       ELSE NotFound

\* SimpleSourceResolver.resolve: the first handler that can handle the URI;
\* a bare name or a namespace:path string has no handler
Resolve(uri) == IF uri.kind = "file" THEN FileResolve(uri) ELSE NotFound

(***************************************************************************)
(* registry.py: bundle loader                                              *)
(***************************************************************************)
\* _load_from_path: the bundle file read for a path, NoPath for BundleLoadError
BundleFileFor(path) ==
    IF IsDir(path)
    THEN IF Exists(path \o <<"bundle.md">>) THEN path \o <<"bundle.md">>
         ELSE IF Exists(path \o <<"bundle.yaml">>) THEN path \o <<"bundle.yaml">>
         ELSE NoPath
    ELSE IF Suffix(path) \in {".md", ".yaml", ".yml"} THEN path
    ELSE NoPath

RECURSIVE WalkUp(_, _, _)
\* the loop of _find_nearest_bundle_file, on the set of paths that exist
WalkUp(present, current, stop) ==
    IF ~PathGE(current, stop) THEN NoPath
    ELSE IF current \o <<"bundle.md">> \in present THEN current \o <<"bundle.md">>
    ELSE IF current \o <<"bundle.yaml">> \in present THEN current \o <<"bundle.yaml">>
    ELSE IF current = stop THEN NoPath
    ELSE WalkUp(present, Parent(current), stop)

\* on the registry's filesystem; start and stop are absolute and normalised,
\* which resolve() leaves as they are
find_nearest_bundle_file(start, stop) == WalkUp(FSDirs \cup BundleFiles, start, stop)

(***************************************************************************)
(* _find_nearest_bundle_file on every pair of the directories /, /a,       *)
(* /a/sub, /b, /b/sub and every choice of bundle files in them.            *)
(***************************************************************************)
DirBSub == <<"b", "sub">>

WalkDirs == {<<>>, DirA, DirASub, DirB, DirBSub}

WalkFiles == {dir \o <<name>> : dir \in WalkDirs, name \in {"bundle.md", "bundle.yaml"}}

FindNearestInputs ==
    \E start \in WalkDirs, stop \in WalkDirs : \E files \in SUBSET WalkFiles :
        applied = [fn |-> "find_nearest_bundle_file", pc |-> "call", start |-> start,
                   stop |-> stop, present |-> WalkDirs \cup files, ret |-> NoPath]

\* _find_nearest_bundle_file(start, stop) is called and returns
FindNearestBundleFile ==
    /\ applied.fn = "find_nearest_bundle_file"
    /\ applied.pc = "call"
    /\ applied' = [applied EXCEPT !.pc = "returned",
                                  !.ret = WalkUp(applied.present, applied.start, applied.stop)]
    /\ UNCHANGED spawned
    /\ UNCHANGED <<cvars, rvars, hvars, mvars, pvars>>

\* An include directive: a reference string, or a dict whose `bundle` key
\* holds the reference (NoRef when the dict has no `bundle` key).
StrInclude(ref) == [form |-> "str", ref |-> ref]

DictInclude(ref) == [form |-> "dict", ref |-> ref]

\* _parse_include: the source string, NoRef for None
parse_include(include) == include.ref

\* Bundle.from_dict(data, base_path=file.parent) of each bundle file, with
\* the markdown body as instruction; `includes` is the file's include list
FileBundle(file, includes) ==
    CASE file = FileA ->
           Bundle("A", "1.0.0", "root A", includes,
                  [orchestrator |-> S("loop-basic"), context |-> S("simple")],
                  << [module |-> S("p"), config |-> M([x |-> S("1"), y |-> S("2")])] >>,
                  <<>>, <<>>,
                  [ag1 |-> [name |-> S("ag1")]],
                  << Entry(<<"k1">>, DirA \o <<"context", "k1.md">>) >>,
                  "A instruction", DirA, EmptyMap, EmptyMap)
      [] file = FileS ->
           Bundle("S", "1.0.0", "", includes,
                  EmptyMap, <<>>, << [module |-> S("t1")] >>, <<>>,
                  EmptyMap,
                  << Entry(<<"k1">>, DirASub \o <<"context", "k1.md">>) >>,
                  NoneVal, DirASub, EmptyMap, ("A:shared" :> "A:shared"))
      [] file = FileB ->
           Bundle("B", "2.0.0", "", includes,
                  [orchestrator |-> M([module |-> S("loop-streaming")])],
                  << [module |-> S("p"), config |-> M([y |-> S("3"), z |-> S("4")])],
                     [module |-> S("q")] >>,
                  <<>>, << [module |-> S("h1")] >>,
                  [ag1 |-> [name |-> S("ag1"), model |-> S("m2")]],
                  << Entry(<<"k1">>, DirB \o <<"context", "k1.md">>) >>,
                  NoneVal, DirB, EmptyMap, EmptyMap)
      [] file = FileC ->
           Bundle("C", "3.0.0", "leaf C", includes,
                  [context |-> S("persistent")],
                  << [module |-> S("q"), config |-> M([x |-> S("9")])] >>,
                  << [module |-> S("t2")] >>, <<>>,
                  [ag2 |-> [name |-> S("ag2")]],
                  << Entry(<<"k2">>, DirC \o <<"context", "k2.md">>) >>,
                  "C instruction", DirC, EmptyMap, EmptyMap)
      [] OTHER ->
           Bundle("N", "1.0.0", "", includes,
                  EmptyMap, <<>>, <<>>, <<>>, EmptyMap, <<>>,
                  NoneVal, DirXSub, EmptyMap, EmptyMap)

(***************************************************************************)
(* registry.py: BundleState rows and the helpers of the load pipeline      *)
(***************************************************************************)
\* `includes` / `included_by` of a row that were never set (None)
NoList == <<NoneVal>>

\* BundleState(uri=uri, name=name)
NewState(uri, name) ==
    [uri |-> uri, name |-> name, version |-> NoneVal, loaded_at |-> 0,
     checked_at |-> 0, local_path |-> NoPath, includes |-> NoList,
     included_by |-> NoList, is_root |-> TRUE, root_name |-> NoneVal]

\* faulty variant of RegisterAll: every name of the argument gets a new row
RegisterAfresh(rows, bundles) ==
    [n \in (DOMAIN rows) \cup (DOMAIN bundles) |->
        IF n \in DOMAIN bundles THEN NewState(bundles[n], n) ELSE rows[n]]

\* register(): existing rows keep their state and get the new uri
RegisterAll(rows, bundles) ==
    [n \in (DOMAIN rows) \cup (DOMAIN bundles) |->
        IF n \in DOMAIN bundles
        THEN IF n \in DOMAIN rows THEN [rows[n] EXCEPT !.uri = bundles[n]]
             ELSE NewState(bundles[n], n)
        ELSE rows[n]]

\* every name that occurs, in sorted order
NameOrder == <<"A", "B", "C", "N", "S", "X">>

\* list_registered(): sorted(self._registry.keys())
list_registered(rows) == SelectSeq(NameOrder, LAMBDA n : n \in DOMAIN rows)

\* faulty variant of to_dict: the included_by list is never written
to_dict_without_included_by(row) ==
    LET base == [uri |-> row.uri, name |-> row.name, version |-> row.version,
                 loaded_at |-> row.loaded_at, checked_at |-> row.checked_at,
                 local_path |-> row.local_path, is_root |-> row.is_root]
        inc == IF row.includes \notin {NoList, <<>>}
               THEN [includes |-> row.includes] ELSE EmptyMap
        rn == IF Truthy(row.root_name) THEN [root_name |-> row.root_name] ELSE EmptyMap
    IN base @@ inc @@ rn

\* BundleState.to_dict: empty optional fields are left out
to_dict(row) ==
    LET base == [uri |-> row.uri, name |-> row.name, version |-> row.version,
                 loaded_at |-> row.loaded_at, checked_at |-> row.checked_at,
                 local_path |-> row.local_path, is_root |-> row.is_root]
        inc == IF row.includes \notin {NoList, <<>>}
               THEN [includes |-> row.includes] ELSE EmptyMap
        by == IF row.included_by \notin {NoList, <<>>}
              THEN [included_by |-> row.included_by] ELSE EmptyMap
        rn == IF Truthy(row.root_name) THEN [root_name |-> row.root_name] ELSE EmptyMap
    IN base @@ inc @@ by @@ rn

\* save(): the content written to <home>/registry.json
Saved(rows) == [version |-> 1, bundles |-> [n \in DOMAIN rows |-> to_dict(rows[n])]]

NoDisk == [version |-> 0, bundles |-> EmptyMap]

\* data.get(key, default)
DictGet(data, key, default) == IF key \in DOMAIN data THEN data[key] ELSE default

\* BundleState.from_dict(name, data)
from_dict(name, data) ==
    [uri |-> data["uri"], name |-> name,
     version |-> DictGet(data, "version", NoneVal),
     loaded_at |-> DictGet(data, "loaded_at", 0),
     checked_at |-> DictGet(data, "checked_at", 0),
     local_path |-> DictGet(data, "local_path", NoPath),
     includes |-> DictGet(data, "includes", NoList),
     included_by |-> DictGet(data, "included_by", NoList),
     is_root |-> DictGet(data, "is_root", TRUE),
     root_name |-> DictGet(data, "root_name", NoneVal)]

\* _load_persisted_state: the rows read from <home>/registry.json, none
\* when the file does not exist
Persisted(file) ==
    [n \in DOMAIN file.bundles |-> from_dict(n, file.bundles[n])]

\* list.append(x) unless x is already in the list (None becomes [] first)
AppendNew(list, items) ==
    LET start == IF list = NoList THEN <<>> ELSE list
        inList(q, x) == \E i \in 1..Len(q) : q[i] = x
        F[i \in 0..Len(items)] ==
            IF i = 0 THEN start
            ELSE IF inList(F[i - 1], items[i]) THEN F[i - 1]
                 ELSE Append(F[i - 1], items[i])
    IN F[Len(items)]

\* faulty variant of RecordIncludes: the parent's includes alone are updated
RecordsParentOnly(rows, parent_name, child_names) ==
    IF parent_name \in DOMAIN rows
    THEN [rows EXCEPT ![parent_name].includes =
                          AppendNew(rows[parent_name].includes, child_names)]
    ELSE rows

\* _record_include_relationships, without the save()
RecordIncludes(rows, parent_name, child_names) ==
    LET children == {child_names[i] : i \in 1..Len(child_names)}
        withParent ==
            IF parent_name \in DOMAIN rows
            THEN [rows EXCEPT ![parent_name].includes =
                                  AppendNew(rows[parent_name].includes, child_names)]
            ELSE rows
    IN [n \in DOMAIN withParent |->
          IF n \in children
          THEN [withParent[n] EXCEPT !.included_by =
                                        AppendNew(withParent[n].included_by,
                                                  <<parent_name>>)]
          ELSE withParent[n]]

\* _resolve_include_source: the URI to load, NoRef for None
resolve_include_source(rows, source) ==
    IF source.kind = "file" THEN source
    ELSE IF source.kind = "ns"
    THEN IF source.name \in DOMAIN rows /\ rows[source.name].local_path # NoPath
         THEN LET namespace_path == rows[source.name].local_path
                  resource_path == IF IsFile(namespace_path)
                                   THEN Parent(namespace_path) \o source.path
                                   ELSE namespace_path \o source.path
                  \* resource_path has no suffix: with_suffix appends one
                  last == resource_path[Len(resource_path)]
                  stem == Parent(resource_path)
                  candidates == << resource_path,
                                   stem \o <<last \o ".yaml">>,
                                   stem \o <<last \o ".yml">>,
                                   stem \o <<last \o ".md">>,
                                   resource_path \o <<"bundle.yaml">>,
                                   resource_path \o <<"bundle.md">> >>
                  found == {i \in 1..Len(candidates) : Exists(candidates[i])}
              IN IF found = {} THEN NoRef
                 ELSE FileURI(candidates[CHOOSE i \in found :
                                            \A j \in found : i <= j])
         ELSE NoRef
    ELSE source

\* exceptions.py: BundleNotFoundError, BundleLoadError and
\* BundleDependencyError are distinct classes, none derived from another
IsInstance(exc, class) == exc = class

\* faulty variants of IncludeCatches: `except Exception`, and no except
\* clause at all
CatchesEverything(exc) == TRUE

CatchesNothing(exc) == FALSE

\* the `except BundleNotFoundError` clause around the load of an include
IncludeCatches(exc) == IsInstance(exc, "BundleNotFoundError")

\* faulty variant of LoadingAfterExit: no discard on the way out
MarkerKept(inProgress, uri) == inProgress

\* the `finally: self._loading.discard(uri)` of _load_single
LoadingAfterExit(inProgress, uri) == inProgress \ {uri}

\* `uri in self._loading`
InProgress(inProgress, uri) == uri \in inProgress

\* faulty variant of ComposeIncludes: the bundle first, its includes on top
BundleThenIncludes(included, bundle) == Compose(bundle, included)

\* _compose_includes 471-475: includes in order, then the bundle on top
ComposeIncludes(included, bundle) ==
    LET F[i \in 1..Len(included)] ==
            IF i = 1 THEN included[1]
            ELSE Compose(F[i - 1], <<included[i]>>)
    IN Compose(F[Len(included)], <<bundle>>)

\* faulty variant of WithRootNamespaces: the namespaces are mapped to the
\* loaded bundle's own directory instead of the source root
WithOwnDirectory(bundle, rootName, source_root) ==
    [bundle EXCEPT !.source_base_paths =
        DictUpdate(DictUpdate(@, IF rootName # ""
                                 THEN [k \in {rootName} |-> bundle.base_path]
                                 ELSE EmptyMap),
                   OwnBasePath(bundle))]

\* registry.py 310-325: the namespaces sub-bundle discovery adds to the bundle
WithRootNamespaces(bundle, rootName, source_root) ==
    LET first == IF rootName # ""
                 THEN DictUpdate(bundle.source_base_paths,
                                 [k \in {rootName} |-> source_root])
                 ELSE bundle.source_base_paths
        second == IF bundle.name # "" /\ bundle.name # rootName
                  THEN DictUpdate(first, [k \in {bundle.name} |-> source_root])
                  ELSE first
    IN [bundle EXCEPT !.source_base_paths = second]

\* registry.py 296-310: the root bundle file found by walking up from the
\* loaded path to the source root, NoPath when there is none or it is the
\* loaded path itself
RootBundlePath(local_path, source_root) ==
    LET search_start == IF IsFile(local_path) THEN Parent(local_path)
                        ELSE local_path
        root_bundle_path == find_nearest_bundle_file(search_start, source_root)
    IN IF root_bundle_path # NoPath /\ root_bundle_path # local_path
       THEN root_bundle_path
       ELSE NoPath

\* registry.py 327-363: registration of the loaded bundle's name for
\* namespace resolution and update of the known row; root_name is the name
\* of the root bundle read, NoneVal when none was
RegisterLoaded(rows, uri, registered_name, bundle, local_path, root_name, now) ==
    LET isSub == root_name # NoneVal /\ root_name # "" /\ root_name # bundle.name
        added ==
            IF bundle.name # "" /\ bundle.name \notin DOMAIN rows
            THEN (bundle.name :>
                     [NewState(uri, bundle.name) EXCEPT
                         !.version = bundle.version,
                         !.loaded_at = now,
                         !.local_path = local_path,
                         !.is_root = ~isSub,
                         !.root_name = IF isSub THEN root_name ELSE NoneVal])
                 @@ rows
            ELSE rows
        update_name == IF registered_name # "" THEN registered_name
                       ELSE IF bundle.name \in DOMAIN added THEN bundle.name
                       ELSE ""
    IN IF update_name # ""
       THEN [added EXCEPT ![update_name].version = bundle.version,
                          ![update_name].loaded_at = now,
                          ![update_name].local_path = local_path]
       ELSE added

\* registry.py 463-468: whether _compose_includes records (and saves) who
\* includes whom, and the rows after it did
RecordsIncludes(bundle, included, included_names) ==
    included # <<>> /\ bundle.name # "" /\ included_names # <<>>

RowsAfterIncludes(rows, bundle, included, included_names) ==
    IF RecordsIncludes(bundle, included, included_names)
    THEN RecordIncludes(rows, bundle.name, included_names)
    ELSE rows

\* registry.py 366-371: the bundle _load_single returns
LoadResult(bundle, included, uri) ==
    [(IF bundle.includes = <<>> \/ included = <<>> THEN bundle
      ELSE ComposeIncludes(included, bundle))
     EXCEPT !.source_uri = uri]

(***************************************************************************)
(* The registry and its running loads.                                     *)
(*   registry  name -> BundleState row (self._registry)                    *)
(*   loading   the URIs being loaded (self._loading)                       *)
(*   disk      the content of <home>/registry.json                         *)
(*   world     the include list of every bundle file read so far           *)
(*   tasks     the coroutines of the current load call: one for load(x),   *)
(*             one per registered name for load(None); each is a stack of  *)
(*             _load_single frames                                         *)
(*   running   the task executing between two suspension points, 0 when    *)
(*             every task is suspended or finished                         *)
(*   call      the host's call in progress; ret, its outcome; calls, the   *)
(*             number of load calls made (also the clock of datetime.now)  *)
(* A run is a fresh registry, the registration of some well-known bundles  *)
(* or none, and one call of load.                                          *)
(***************************************************************************)
vars == <<cvars, rvars, xvars>>

\* the most include directives in bundle A's file
MaxIncludes == 2

UriA == FileURI(DirA)

UriB == FileURI(DirB)

UriC == FileURI(DirC)

UriBad == FileURI(DirBad)

UriGone == FileURI(DirGone)

\* the three kinds of missing include: an unknown plain name, a namespace
\* that is not registered, a URI whose source raises not-found
MissingIncludes ==
    {StrInclude(PlainName("ghost")), StrInclude(NsPath("nsx", <<"p">>)),
     StrInclude(UriGone)}

\* what bundle A's file may list
IncludesOfA ==
    {StrInclude(UriB), DictInclude(UriC), StrInclude(UriA),
     StrInclude(NsPath("A", <<"sub">>))} \cup MissingIncludes

\* the include lists a bundle file may hold
IncludeChoices(file) ==
    CASE file = FileA -> SeqsUpTo(IncludesOfA, MaxIncludes)
      [] file = FileB -> {<<>>, <<StrInclude(UriA)>>, <<StrInclude(PlainName("A"))>>,
                          <<StrInclude(UriC)>>, <<StrInclude(UriBad)>>,
                          <<DictInclude(NoRef)>>}
      [] OTHER -> {<<>>}

\* what the host passes to load()
LoadTargets ==
    {UriA, UriB, UriC, UriBad, UriGone, SubdirURI(DirA, <<"sub">>),
     SubdirURI(DirX, <<"sub">>), PlainName("A"), PlainName("ghost")}

\* what the host passes to register()
RegisterChoices ==
    {[A |-> UriA], [A |-> UriA, B |-> UriB], [A |-> UriA, X |-> UriGone],
     [B |-> UriB, X |-> UriBad], [A |-> UriB]}

NewFrame(arg) ==
    [pc |-> "enter", arg |-> arg, registered_name |-> "", uri |-> NoRef,
     active |-> NoPath, root |-> NoPath, bundle |-> NoBundle,
     root_file |-> NoPath, root_name |-> NoneVal, idx |-> 0,
     included |-> <<>>, included_names |-> <<>>, skipped |-> {},
     exc |-> "", result |-> NoBundle]

NewTask(arg) ==
    [stack |-> <<NewFrame(arg)>>, done |-> FALSE, exc |-> "",
     result |-> NoBundle, reentered |-> FALSE, frame |-> NewFrame(arg)]

NoRet ==
    [kind |-> "none", arg |-> NoRef, status |-> "ok", exc |-> "",
     value |-> NoBundle, bundles |-> EmptyMap, names |-> <<>>, failed |-> {},
     reentered |-> FALSE, rows |-> EmptyMap, frame |-> NewFrame(NoRef)]

RegistryInit ==
    /\ registry = EmptyMap
    /\ loading = {}
    /\ disk = NoDisk
    /\ world = EmptyMap
    /\ tasks = <<>>
    /\ running = 0
    /\ call = "none"
    /\ ret = NoRet
    /\ calls = 0

Depth(t) == Len(tasks[t].stack)

Top(t) == tasks[t].stack[Depth(t)]

Started(t) ==
    IF tasks[t].done THEN TRUE
    ELSE Depth(t) > 1 \/ tasks[t].stack[1].pc # "enter"

\* Task t may take a step: it holds the processor, or nobody does and the
\* tasks created before it have all run their first step (the event loop
\* starts the gathered coroutines in order).
CanRun(t) ==
    /\ t \in 1..Len(tasks)
    /\ ~tasks[t].done
    /\ \/ running = t
       \/ running = 0 /\ \A u \in 1..(t - 1) : Started(u)

SetTop(t, frame) == [tasks EXCEPT ![t].stack[Depth(t)] = frame]

\* the top frame of t exits by raising exc
Raised(t, exc) ==
    IF Depth(t) = 1
    THEN [tasks EXCEPT ![t] = [@ EXCEPT !.stack = <<>>, !.done = TRUE, !.exc = exc,
                                        !.frame = Top(t)]]
    ELSE [tasks EXCEPT ![t].stack =
            [i \in 1..(Depth(t) - 1) |->
                IF i = Depth(t) - 1 THEN [@[i] EXCEPT !.exc = exc] ELSE @[i]]]

\* the top frame of t exits by returning bundle
Returned(t, bundle) ==
    IF Depth(t) = 1
    THEN [tasks EXCEPT ![t] = [@ EXCEPT !.stack = <<>>, !.done = TRUE,
                                        !.result = bundle, !.frame = Top(t)]]
    ELSE [tasks EXCEPT ![t].stack =
            [i \in 1..(Depth(t) - 1) |->
                IF i = Depth(t) - 1
                THEN [@[i] EXCEPT
                        !.included = Append(@, bundle),
                        !.included_names = IF bundle.name # ""
                                           THEN Append(@, bundle.name) ELSE @,
                        !.idx = @ + 1]
                ELSE @[i]]]

\* who holds the processor after the top frame of t exits
AfterExit(t) == IF Depth(t) = 1 THEN 0 ELSE t

(***************************************************************************)
(* _load_single, one action per stretch between two awaits                 *)
(***************************************************************************)
\* registry.py 257-274: name lookup, cycle check, marking, up to the await
\* of the source resolver
LoadEnter(t) ==
    /\ CanRun(t)
    /\ Top(t).pc = "enter"
    /\ LET f == Top(t)
           registered == f.arg.kind = "name" /\ f.arg.name \in DOMAIN registry
           uri == IF registered THEN registry[f.arg.name].uri ELSE f.arg
           own == {tasks[t].stack[i].uri : i \in 1..(Depth(t) - 1)}
       IN IF InProgress(loading, uri)
          THEN /\ tasks' = [Raised(t, "BundleDependencyError") EXCEPT
                              ![t].reentered = @ \/ uri \in own]
               /\ running' = AfterExit(t)
               /\ UNCHANGED loading
          ELSE /\ loading' = loading \cup {uri}
               /\ tasks' = [SetTop(t, [f EXCEPT
                                !.pc = "resolve", !.uri = uri,
                                !.registered_name = IF registered THEN f.arg.name
                                                    ELSE ""])
                            EXCEPT ![t].reentered = @ \/ uri \in own]
               /\ running' = 0
    /\ UNCHANGED <<cvars, xvars>>
    /\ UNCHANGED <<registry, disk, world, call, ret, calls>>

\* registry.py 274-281: the source resolver answers
LoadResolve(t) ==
    /\ CanRun(t)
    /\ Top(t).pc = "resolve"
    /\ LET f == Top(t)
           resolved == Resolve(f.uri)
       IN IF ~resolved.ok
          THEN /\ tasks' = Raised(t, "BundleNotFoundError")
               /\ loading' = LoadingAfterExit(loading, f.uri)
               /\ running' = AfterExit(t)
          ELSE /\ tasks' = SetTop(t, [f EXCEPT !.pc = "read",
                                               !.active = resolved.active,
                                               !.root = resolved.root])
               /\ running' = 0
               /\ UNCHANGED loading
    /\ UNCHANGED <<cvars, xvars>>
    /\ UNCHANGED <<registry, disk, world, call, ret, calls>>

\* registry.py 281-312: the bundle file is read, then the walk up to the
\* source root looks for a root bundle file
LoadRead(t) ==
    /\ CanRun(t)
    /\ Top(t).pc = "read"
    /\ LET f == Top(t)
           file == BundleFileFor(f.active)
       IN IF file = NoPath
          THEN /\ tasks' = Raised(t, "BundleLoadError")
               /\ loading' = LoadingAfterExit(loading, f.uri)
               /\ running' = AfterExit(t)
               /\ UNCHANGED world
          ELSE /\ \E includes \in IncludeChoices(file) :
                     /\ file \in DOMAIN world => includes = world[file]
                     /\ world' = (file :> includes) @@ world
                     /\ LET root_bundle_path == RootBundlePath(f.active, f.root)
                            hasRoot == root_bundle_path # NoPath
                        IN /\ tasks' = SetTop(t, [f EXCEPT
                                  !.bundle = FileBundle(file, includes),
                                  !.root_file = root_bundle_path,
                                  !.pc = IF hasRoot THEN "read_root" ELSE "register"])
                           /\ running' = IF hasRoot THEN 0 ELSE t
               /\ UNCHANGED loading
    /\ UNCHANGED <<cvars, xvars>>
    /\ UNCHANGED <<registry, disk, call, ret, calls>>

\* registry.py 312-325: the root bundle is read and its namespace recorded
LoadReadRoot(t) ==
    /\ CanRun(t)
    /\ Top(t).pc = "read_root"
    /\ LET f == Top(t)
           root_bundle == FileBundle(f.root_file, <<>>)
       IN tasks' = SetTop(t, [f EXCEPT
              !.bundle = WithRootNamespaces(f.bundle, root_bundle.name, f.root),
              !.root_name = root_bundle.name,
              !.pc = "register"])
    /\ running' = t
    /\ UNCHANGED <<cvars, xvars>>
    /\ UNCHANGED <<registry, loading, disk, world, call, ret, calls>>

\* registry.py 327-367: root / sub-bundle decision, registration of the
\* bundle's name, update of the row
LoadRegister(t) ==
    /\ CanRun(t)
    /\ Top(t).pc = "register"
    /\ LET f == Top(t)
       IN /\ registry' = RegisterLoaded(registry, f.uri, f.registered_name,
                                        f.bundle, f.active, f.root_name, calls)
          /\ tasks' = SetTop(t, IF f.bundle.includes # <<>>
                                THEN [f EXCEPT !.pc = "include", !.idx = 1]
                                ELSE [f EXCEPT !.pc = "return",
                                               !.result = LoadResult(f.bundle, <<>>,
                                                                     f.uri)])
    /\ running' = t
    /\ UNCHANGED <<cvars, xvars>>
    /\ UNCHANGED <<loading, disk, world, call, ret, calls>>

\* registry.py 437-451: the next include is parsed and resolved; a loadable
\* one is loaded by a nested _load_single
LoadInclude(t) ==
    /\ CanRun(t)
    /\ Top(t).pc = "include"
    /\ Top(t).exc = ""
    /\ Top(t).idx <= Len(Top(t).bundle.includes)
    /\ LET f == Top(t)
           include_source == parse_include(f.bundle.includes[f.idx])
           resolved_source == IF include_source = NoRef THEN NoRef
                              ELSE resolve_include_source(registry, include_source)
       IN tasks' = IF resolved_source = NoRef
                   THEN SetTop(t, [f EXCEPT
                            !.idx = @ + 1,
                            !.skipped = IF include_source = NoRef THEN @
                                        ELSE @ \cup {f.idx}])
                   ELSE [tasks EXCEPT ![t].stack = Append(@, NewFrame(resolved_source))]
    /\ running' = t
    /\ UNCHANGED <<cvars, xvars>>
    /\ UNCHANGED <<registry, loading, disk, world, call, ret, calls>>

\* registry.py 458-461 and 375-376: the nested load raised; not-found is
\* skipped, anything else leaves this load too
LoadIncludeFailed(t) ==
    /\ CanRun(t)
    /\ Top(t).pc = "include"
    /\ Top(t).exc # ""
    /\ LET f == Top(t)
       IN IF IncludeCatches(f.exc)
          THEN /\ tasks' = SetTop(t, [f EXCEPT !.exc = "", !.idx = @ + 1,
                                               !.skipped = @ \cup {f.idx}])
               /\ running' = t
               /\ UNCHANGED loading
          ELSE /\ tasks' = Raised(t, f.exc)
               /\ loading' = LoadingAfterExit(loading, f.uri)
               /\ running' = AfterExit(t)
    /\ UNCHANGED <<cvars, xvars>>
    /\ UNCHANGED <<registry, disk, world, call, ret, calls>>

\* registry.py 463-475 and 369-371: relationships recorded and saved, the
\* includes composed with the bundle on top, the source URI stamped
LoadCompose(t) ==
    /\ CanRun(t)
    /\ Top(t).pc = "include"
    /\ Top(t).exc = ""
    /\ Top(t).idx > Len(Top(t).bundle.includes)
    /\ LET f == Top(t)
       IN /\ registry' = RowsAfterIncludes(registry, f.bundle, f.included,
                                           f.included_names)
          /\ disk' = IF RecordsIncludes(f.bundle, f.included, f.included_names)
                     THEN Saved(registry')
                     ELSE disk
          /\ tasks' = SetTop(t, [f EXCEPT !.pc = "return",
                                          !.result = LoadResult(f.bundle, f.included,
                                                                f.uri)])
    /\ running' = t
    /\ UNCHANGED <<cvars, xvars>>
    /\ UNCHANGED <<loading, world, call, ret, calls>>

\* registry.py 373-376: return through the finally clause
LoadReturn(t) ==
    /\ CanRun(t)
    /\ Top(t).pc = "return"
    /\ tasks' = Returned(t, Top(t).result)
    /\ loading' = LoadingAfterExit(loading, Top(t).uri)
    /\ running' = AfterExit(t)
    /\ UNCHANGED <<cvars, xvars>>
    /\ UNCHANGED <<registry, disk, world, call, ret, calls>>

(***************************************************************************)
(* The host's calls                                                        *)
(***************************************************************************)
Idle == call = "none"

\* register(bundles)
Register(bundles) ==
    /\ Idle
    /\ calls = 0
    /\ registry = EmptyMap
    /\ registry' = RegisterAll(registry, bundles)
    /\ UNCHANGED <<cvars, xvars>>
    /\ UNCHANGED <<loading, disk, world, tasks, running, call, ret, calls>>

\* load(name_or_uri): registry.py 232
CallLoad(arg) ==
    /\ Idle
    /\ calls = 0
    /\ call' = "load"
    /\ calls' = calls + 1
    /\ tasks' = <<NewTask(arg)>>
    /\ running' = 1
    /\ ret' = [NoRet EXCEPT !.arg = arg, !.rows = registry]
    /\ UNCHANGED <<cvars, xvars>>
    /\ UNCHANGED <<registry, loading, disk, world>>

\* the awaited _load_single finished: its bundle or its exception
LoadReturns ==
    /\ call = "load"
    /\ tasks[1].done
    /\ ret' = [ret EXCEPT !.kind = "load",
                           !.status = IF tasks[1].exc = "" THEN "ok" ELSE "raised",
                           !.exc = tasks[1].exc,
                           !.value = tasks[1].result,
                           !.reentered = tasks[1].reentered,
                           !.frame = tasks[1].frame]
    /\ call' = "none"
    /\ tasks' = <<>>
    /\ running' = 0
    /\ UNCHANGED <<cvars, xvars>>
    /\ UNCHANGED <<registry, loading, disk, world, calls>>

\* load(None): registry.py 212-221
CallLoadAll ==
    /\ Idle
    /\ calls = 0
    /\ calls' = calls + 1
    /\ LET names == list_registered(registry)
       IN IF names = <<>>
          THEN /\ ret' = [NoRet EXCEPT !.kind = "loadall"]
               /\ UNCHANGED <<call, tasks>>
          ELSE /\ call' = "loadall"
               /\ tasks' = [i \in 1..Len(names) |-> NewTask(PlainName(names[i]))]
               /\ ret' = [NoRet EXCEPT !.names = names, !.rows = registry]
    /\ running' = 0
    /\ UNCHANGED <<cvars, xvars>>
    /\ UNCHANGED <<registry, loading, disk, world>>

\* faulty variant of GatherOutcome: gather without return_exceptions, the
\* first exception reaches the caller
GatherRaisesFirst(names, results) ==
    LET bad == {i \in 1..Len(names) : results[i].exc # ""}
    IN IF bad = {}
       THEN [status |-> "ok", exc |-> "",
             bundles |-> [n \in {names[i] : i \in 1..Len(names)} |->
                             results[CHOOSE i \in 1..Len(names) : names[i] = n].result]]
       ELSE [status |-> "raised",
             exc |-> results[CHOOSE i \in bad : \A j \in bad : i <= j].exc,
             bundles |-> EmptyMap]

\* registry.py 223-230: the mapping built from the gathered results
GatherOutcome(names, results) ==
    LET ok == {i \in 1..Len(names) : results[i].exc = ""}
    IN [status |-> "ok", exc |-> "",
        bundles |-> [n \in {names[i] : i \in ok} |->
                        results[CHOOSE i \in ok : names[i] = n].result]]

\* gather(..., return_exceptions=True) has every result
GatherReturns ==
    /\ call = "loadall"
    /\ \A t \in 1..Len(tasks) : tasks[t].done
    /\ LET outcome == GatherOutcome(ret.names, tasks)
       IN ret' = [ret EXCEPT !.kind = "loadall",
                             !.status = outcome.status,
                             !.exc = outcome.exc,
                             !.bundles = outcome.bundles,
                             !.failed = {ret.names[i] : i \in
                                            {j \in 1..Len(tasks) : tasks[j].exc # ""}}]
    /\ call' = "none"
    /\ tasks' = <<>>
    /\ running' = 0
    /\ UNCHANGED <<cvars, xvars>>
    /\ UNCHANGED <<registry, loading, disk, world, calls>>

Next ==
    \/ \E bundles \in RegisterChoices : Register(bundles)
    \/ \E arg \in LoadTargets : CallLoad(arg)
    \/ CallLoadAll
    \/ LoadReturns
    \/ GatherReturns
    \/ \E t \in 1..Len(tasks) : LoadEnter(t)
    \/ \E t \in 1..Len(tasks) : LoadResolve(t)
    \/ \E t \in 1..Len(tasks) : LoadRead(t)
    \/ \E t \in 1..Len(tasks) : LoadReadRoot(t)
    \/ \E t \in 1..Len(tasks) : LoadRegister(t)
    \/ \E t \in 1..Len(tasks) : LoadInclude(t)
    \/ \E t \in 1..Len(tasks) : LoadIncludeFailed(t)
    \/ \E t \in 1..Len(tasks) : LoadCompose(t)
    \/ \E t \in 1..Len(tasks) : LoadReturn(t)

\* the registry at work, no compose call under observation
Init == RegistryInit /\ ComposeIdle /\ HeapIdle /\ MentionsIdle /\ LoaderIdle /\ SpawnIdle /\ AppliedIdle

Spec == Init /\ [][Next]_vars

\* one compose call on bundles drawn from BundleSet
InitCompose == ComposeInputs /\ RegistryInit /\ HeapIdle /\ MentionsIdle /\ LoaderIdle /\ SpawnIdle /\ AppliedIdle

SpecCompose == InitCompose /\ [][ComposeNext]_vars

\* one compose call, or one to_mount_plan call, on Bundle instances
InitHeap == HeapInputs /\ RegistryInit /\ ComposeIdle /\ MentionsIdle /\ LoaderIdle /\ SpawnIdle /\ AppliedIdle

SpecHeap == InitHeap /\ [][HeapNext]_vars

(***************************************************************************)
(* A session: a registry on one home that the host registers names in,     *)
(* loads from, saves and constructs anew, in any order.  `calls` counts    *)
(* every call of the host.  The bundle files of A and B hold one of a few  *)
(* include lists.                                                          *)
(***************************************************************************)
\* the most calls the host makes in a session
MaxCalls == 4

\* the include lists of the files of A and B
SessionWorlds ==
    {(FileA :> <<StrInclude(UriB), StrInclude(UriGone)>>)
        @@ (FileB :> <<StrInclude(UriC)>>),
     (FileA :> <<StrInclude(UriB)>>) @@ (FileB :> <<>>)}

\* what the host passes to register() and to load()
SessionRegisterChoices == {[A |-> UriA], [A |-> UriB, X |-> UriGone]}

SessionLoadTargets == {UriA, PlainName("A"), SubdirURI(DirA, <<"sub">>)}

\* register(bundles) at any time between two calls
SessionRegister(bundles) ==
    /\ Idle
    /\ calls < MaxCalls
    /\ calls' = calls + 1
    /\ registry' = RegisterAll(registry, bundles)
    /\ ret' = ("registered" :> bundles)
                 @@ [NoRet EXCEPT !.kind = "register", !.rows = registry]
    /\ UNCHANGED <<cvars, xvars>>
    /\ UNCHANGED <<loading, disk, world, tasks, running, call>>

\* load(name_or_uri): registry.py 232
SessionLoad(arg) ==
    /\ Idle
    /\ calls < MaxCalls
    /\ call' = "load"
    /\ calls' = calls + 1
    /\ tasks' = <<NewTask(arg)>>
    /\ running' = 1
    /\ ret' = [NoRet EXCEPT !.arg = arg, !.rows = registry]
    /\ UNCHANGED <<cvars, xvars>>
    /\ UNCHANGED <<registry, loading, disk, world>>

\* save()
Save ==
    /\ Idle
    /\ calls < MaxCalls
    /\ calls' = calls + 1
    /\ disk' = Saved(registry)
    /\ ret' = [NoRet EXCEPT !.kind = "save", !.rows = registry]
    /\ UNCHANGED <<cvars, xvars>>
    /\ UNCHANGED <<registry, loading, world, tasks, running, call>>

\* BundleRegistry(home): a new registry on the same home, registry.py 127-135
Reopen ==
    /\ Idle
    /\ calls < MaxCalls
    /\ calls' = calls + 1
    /\ registry' = Persisted(disk)
    /\ loading' = {}
    /\ ret' = [NoRet EXCEPT !.kind = "reopen", !.rows = registry]
    /\ UNCHANGED <<cvars, xvars>>
    /\ UNCHANGED <<disk, world, tasks, running, call>>

SessionNext ==
    \/ \E bundles \in SessionRegisterChoices : SessionRegister(bundles)
    \/ \E arg \in SessionLoadTargets : SessionLoad(arg)
    \/ Save
    \/ Reopen
    \/ LoadReturns
    \/ \E t \in 1..Len(tasks) : LoadEnter(t)
    \/ \E t \in 1..Len(tasks) : LoadResolve(t)
    \/ \E t \in 1..Len(tasks) : LoadRead(t)
    \/ \E t \in 1..Len(tasks) : LoadReadRoot(t)
    \/ \E t \in 1..Len(tasks) : LoadRegister(t)
    \/ \E t \in 1..Len(tasks) : LoadInclude(t)
    \/ \E t \in 1..Len(tasks) : LoadIncludeFailed(t)
    \/ \E t \in 1..Len(tasks) : LoadCompose(t)
    \/ \E t \in 1..Len(tasks) : LoadReturn(t)

SessionInit ==
    /\ registry = EmptyMap
    /\ loading = {}
    /\ disk = NoDisk
    /\ world \in SessionWorlds
    /\ tasks = <<>>
    /\ running = 0
    /\ call = "none"
    /\ ret = NoRet
    /\ calls = 0

\* a session on a fresh home
InitSession == SessionInit /\ ComposeIdle /\ HeapIdle /\ MentionsIdle /\ LoaderIdle /\ SpawnIdle /\ AppliedIdle

SpecSession == InitSession /\ [][SessionNext]_vars

\* one parse_mentions call on a text made of at most MaxTokens pieces
InitMentions == MentionsInputs /\ RegistryInit /\ ComposeIdle /\ HeapIdle /\ LoaderIdle /\ SpawnIdle /\ AppliedIdle

SpecMentions == InitMentions /\ [][MentionsNext]_vars

LoaderInputs ==
    /\ fsys \in LoaderFileSystems
    /\ \E text \in LoaderTexts : \E max_depth \in 0..MaxDepth :
          inv = <<NewLoad(text, max_depth)>>

NestedInputs ==
    /\ fsys \in NestedFileSystems
    /\ \E text \in NestedTexts : \E max_depth \in 0..MaxDepth :
          inv = <<NewLoad(text, max_depth)>>

LoaderNext ==
    \/ \E t \in 1..Len(inv) : LoadMentionsCall(t)
    \/ \E t \in 1..Len(inv) : LoadMentionsNext(t)
    \/ \E t \in 1..Len(inv) : LoadMentionsReturn(t)
    \/ \E t \in 1..Len(inv) : ResolveMention(t)
    \/ \E t \in 1..Len(inv) : ReadMention(t)
    \/ \E t \in 1..Len(inv) : AddMention(t)
    \/ \E t \in 1..Len(inv) : NestedMention(t)
    \/ \E t \in 1..Len(inv) : MentionLoaded(t)

PromptInputs ==
    /\ fsys \in PromptFileSystems
    /\ inv = <<>>

PromptNext ==
    \/ FactoryCall
    \/ \E t \in 1..Len(inv) : LoadMentionsCall(t)
    \/ \E t \in 1..Len(inv) : LoadMentionsNext(t)
    \/ \E t \in 1..Len(inv) : LoadMentionsReturn(t)
    \/ \E t \in 1..Len(inv) : ResolveMention(t)
    \/ \E t \in 1..Len(inv) : ReadMention(t)
    \/ \E t \in 1..Len(inv) : AddMention(t)
    \/ \E t \in 1..Len(inv) : NestedMention(t)
    \/ \E t \in 1..Len(inv) : MentionLoaded(t)
    \/ \E t \in 1..Len(inv) : FactoryReturn(t)
    \/ \E path \in DOMAIN fsys : \E file \in PromptChoices(path) : ChangeFile(path, file)

InitLoader ==
    LoaderInputs /\ RegistryInit /\ ComposeIdle /\ HeapIdle /\ MentionsIdle /\ SpawnIdle /\ AppliedIdle

SpecLoader == InitLoader /\ [][LoaderNext]_vars

InitPrompt ==
    PromptInputs /\ RegistryInit /\ ComposeIdle /\ HeapIdle /\ MentionsIdle /\ SpawnIdle /\ AppliedIdle

SpecPrompt == InitPrompt /\ [][PromptNext]_vars

InitSpawn ==
    SpawnInputs /\ RegistryInit /\ ComposeIdle /\ HeapIdle /\ MentionsIdle /\ LoaderIdle /\ AppliedIdle

SpecSpawn == InitSpawn /\ [][SpawnNext]_vars

FunctionsInputs == ParseUriInputs \/ ValidateInputs \/ FindNearestInputs

FunctionsNext ==
    \/ ParseUri
    \/ Validate
    \/ FindNearestBundleFile

InitFunctions ==
    FunctionsInputs /\ RegistryInit /\ ComposeIdle /\ HeapIdle /\ MentionsIdle /\ LoaderIdle /\ SpawnIdle

SpecFunctions == InitFunctions /\ [][FunctionsNext]_vars

InitRetry ==
    RetryInputs /\ RegistryInit /\ ComposeIdle /\ HeapIdle /\ MentionsIdle /\ LoaderIdle /\ SpawnIdle

SpecRetry == InitRetry /\ [][RetryNext]_vars

InitGit ==
    GitInputs /\ RegistryInit /\ ComposeIdle /\ HeapIdle /\ MentionsIdle /\ SpawnIdle

SpecGit == InitGit /\ [][GitNext]_vars

InitNested ==
    NestedInputs /\ RegistryInit /\ ComposeIdle /\ HeapIdle /\ MentionsIdle /\ SpawnIdle /\ AppliedIdle

SpecNested == InitNested /\ [][LoaderNext]_vars

InitPrepare ==
    PrepareInputs /\ RegistryInit /\ ComposeIdle /\ HeapIdle /\ MentionsIdle /\ LoaderIdle /\ SpawnIdle

SpecPrepare == InitPrepare /\ [][PrepareNext]_vars

\* the event loop runs a call that can take a step
SpecLoaderFair == SpecLoader /\ WF_vars(LoaderNext)

(***************************************************************************)
(* _load_single run to its end without another task in between: the        *)
(* outcome of loading arg from the rows, the in-progress set and the        *)
(* bundle files given.                                                      *)
(***************************************************************************)
Outcome(exc, bundle, rows) == [exc |-> exc, bundle |-> bundle, rows |-> rows]

\* the include list of a bundle file
IncludesIn(files, file) == IF file \in DOMAIN files THEN files[file] ELSE <<>>

RECURSIVE load_single(_, _, _, _, _)
RECURSIVE load_includes(_, _, _, _, _, _, _, _)
\* registry.py 437-461: the loop of _compose_includes from include idx on
load_includes(bundle, idx, included, names, rows, inProgress, files, now) ==
    IF idx > Len(bundle.includes)
    THEN [exc |-> "", included |-> included, names |-> names, rows |-> rows]
    ELSE LET include_source == parse_include(bundle.includes[idx])
             resolved_source == IF include_source = NoRef THEN NoRef
                                ELSE resolve_include_source(rows, include_source)
             got == load_single(resolved_source, rows, inProgress, files, now)
         IN IF resolved_source = NoRef
            THEN load_includes(bundle, idx + 1, included, names, rows,
                               inProgress, files, now)
            ELSE IF got.exc = ""
            THEN load_includes(bundle, idx + 1, Append(included, got.bundle),
                               IF got.bundle.name # ""
                               THEN Append(names, got.bundle.name) ELSE names,
                               got.rows, inProgress, files, now)
            ELSE IF IncludeCatches(got.exc)
            THEN load_includes(bundle, idx + 1, included, names, got.rows,
                               inProgress, files, now)
            ELSE [exc |-> got.exc, included |-> included, names |-> names,
                  rows |-> got.rows]

\* registry.py 257-376
load_single(arg, rows, inProgress, files, now) ==
    LET registered == arg.kind = "name" /\ arg.name \in DOMAIN rows
        uri == IF registered THEN rows[arg.name].uri ELSE arg
        registered_name == IF registered THEN arg.name ELSE ""
        resolved == Resolve(uri)
        file == BundleFileFor(resolved.active)
        own == FileBundle(file, IncludesIn(files, file))
        root_file == RootBundlePath(resolved.active, resolved.root)
        root_name == IF root_file = NoPath THEN NoneVal
                     ELSE FileBundle(root_file, <<>>).name
        bundle == IF root_file = NoPath THEN own
                  ELSE WithRootNamespaces(own, root_name, resolved.root)
        registered_rows == RegisterLoaded(rows, uri, registered_name, bundle,
                                          resolved.active, root_name, now)
        inc == load_includes(bundle, 1, <<>>, <<>>, registered_rows,
                             inProgress \cup {uri}, files, now)
    IN IF InProgress(inProgress, uri)
       THEN Outcome("BundleDependencyError", NoBundle, rows)
       ELSE IF ~resolved.ok
       THEN Outcome("BundleNotFoundError", NoBundle, rows)
       ELSE IF file = NoPath
       THEN Outcome("BundleLoadError", NoBundle, rows)
       ELSE IF inc.exc # ""
       THEN Outcome(inc.exc, NoBundle, inc.rows)
       ELSE Outcome("", LoadResult(bundle, inc.included, uri),
                    RowsAfterIncludes(inc.rows, bundle, inc.included, inc.names))

(***************************************************************************)
(* Properties of the load pipeline                                         *)
(***************************************************************************)
\* the URI load(arg) loads, given the rows at the call
TargetUri(arg, rows) ==
    IF arg.kind = "name" /\ arg.name \in DOMAIN rows THEN rows[arg.name].uri
    ELSE arg

\* the bundle file behind a URI, NoPath when it has none
FileOf(uri) == IF Resolve(uri).ok THEN BundleFileFor(Resolve(uri).active) ELSE NoPath

\* the URIs the bundle file behind uri declares as includes
DeclaredURIs(uri) ==
    IF FileOf(uri) \in DOMAIN world
    THEN {r \in {parse_include(world[FileOf(uri)][i]) :
                    i \in 1..Len(world[FileOf(uri)])} : r.kind = "file"}
    ELSE {}

KnownURIs == {UriA, UriB, UriC, UriBad, UriGone}

RECURSIVE LeadsTo(_, _, _)
\* the includes of u lead to v along at most n URIs
LeadsTo(u, v, n) ==
    /\ n > 0
    /\ \/ v \in DeclaredURIs(u)
       \/ \E w \in DeclaredURIs(u) : LeadsTo(w, v, n - 1)

\* the includes of u transitively lead back to u
Cyclic(u) == u \in KnownURIs /\ LeadsTo(u, u, Cardinality(KnownURIs))

LoadReturned == ret.kind = "load"

\* C1 as stated: load(u) of a bundle whose includes transitively lead back
\* to u raises BundleDependencyError
Orig_C1_CycleAlwaysDependencyError ==
    LoadReturned /\ Cyclic(TargetUri(ret.arg, ret.rows))
        => ret.exc = "BundleDependencyError"

\* C1 (amended): load(u) of a bundle whose includes transitively lead back
\* to u never returns a bundle and never recurses on.  Once the load
\* re-enters a URI it is loading it raises BundleDependencyError, which no
\* include swallows as missing; when an include loaded before the cycle is
\* reached fails with an error that is not not-found (BundleLoadError),
\* that error is raised instead
Thm_C1_CycleRaisesDependencyError ==
    /\ LoadReturned /\ ret.reentered
            => ret.status = "raised" /\ ret.exc = "BundleDependencyError"
    /\ LoadReturned /\ Cyclic(TargetUri(ret.arg, ret.rows))
            => /\ ret.status = "raised"
               /\ ret.exc \in {"BundleDependencyError", "BundleLoadError"}

\* a load of A that came back to A through B only, and raised the cycle error
Wit_C1_IndirectCycle ==
    /\ LoadReturned
    /\ Cyclic(TargetUri(ret.arg, ret.rows))
    /\ TargetUri(ret.arg, ret.rows) \notin DeclaredURIs(TargetUri(ret.arg, ret.rows))
    /\ ret.reentered
    /\ ret.exc = "BundleDependencyError"

\* the URIs of the _load_single frames that passed the cycle check and have
\* not left yet
Entered ==
    UNION {{tasks[t].stack[i].uri :
                i \in {j \in 1..Depth(t) : tasks[t].stack[j].pc # "enter"}} :
           t \in 1..Len(tasks)}

\* C2: the in-progress set holds exactly the URIs whose load has started
\* and not finished, whatever way the finished ones ended, and it is empty
\* when no load is running
Thm_C2_LoadingIsLoadsInProgress ==
    /\ loading = Entered
    /\ call = "none" => loading = {}

\* two loads in progress after a third one has failed and left
Wit_C2_FailedLoadLeft ==
    /\ Cardinality(loading) >= 2
    /\ \E t \in 1..Len(tasks) : tasks[t].done /\ tasks[t].exc # ""

\* C3: load(None) returns normally a mapping whose keys are exactly the
\* names registered at the call whose own load succeeded, each with the
\* bundle that load returned; no load's exception reaches the caller
Thm_C3_LoadAllKeepsSuccesses ==
    ret.kind = "loadall"
        => /\ ret.status = "ok"
           /\ ret.exc = ""
           /\ {ret.names[i] : i \in 1..Len(ret.names)} = DOMAIN ret.rows
           /\ DOMAIN ret.bundles = DOMAIN ret.rows \ ret.failed
           /\ \A n \in DOMAIN ret.bundles :
                 ret.bundles[n].source_uri = ret.rows[n].uri

\* load(None) returned with one name loaded and another one failed
Wit_C3_OneFailedOneLoaded ==
    /\ ret.kind = "loadall"
    /\ ret.failed # {}
    /\ DOMAIN ret.bundles # {}

\* the include list with the includes at the indices in skipped left out
WithoutSkipped(includes, skipped) ==
    LET kept[i \in 0..Len(includes)] ==
            IF i = 0 THEN <<>>
            ELSE IF i \in skipped THEN kept[i - 1]
            ELSE Append(kept[i - 1], includes[i])
    IN kept[Len(includes)]

\* two bundles equal but for the include list they declare
SameComposition(x, y) == [x EXCEPT !.includes = <<>>] = [y EXCEPT !.includes = <<>>]

\* what load(ret.arg) gives when the bundle file loaded does not declare
\* the includes that load skipped as missing
WithoutMissing ==
    LET file == BundleFileFor(ret.frame.active)
    IN load_single(ret.arg, ret.rows, {},
                   [world EXCEPT ![file] = WithoutSkipped(@, ret.frame.skipped)],
                   calls)

\* C4: a load that skipped includes as missing (unknown plain name,
\* unresolvable namespace:path, source not found) ends as the same load
\* does when the bundle does not declare them: not with the not-found
\* error, with the same exception if any, the same composed bundle (but
\* for its `includes` list) and the same registry rows
Thm_C4_MissingIncludeSkipped ==
    LoadReturned /\ ret.frame.skipped # {}
        => /\ ret.exc # "BundleNotFoundError"
           /\ ret.exc = WithoutMissing.exc
           /\ ret.status = "ok" => SameComposition(ret.value, WithoutMissing.bundle)
           /\ registry = WithoutMissing.rows

\* a load that skipped a missing include and composed another one
Wit_C4_SkippedAndComposed ==
    /\ LoadReturned
    /\ ret.status = "ok"
    /\ ret.frame.skipped # {}
    /\ ret.frame.included # <<>>

\* I1.compose(I2)...compose(In).compose(P)
IncludesThenBundle(I, P) ==
    LET nest[i \in 1..Len(I)] ==
            IF i = 1 THEN I[1] ELSE Compose(nest[i - 1], <<I[i]>>)
    IN Compose(nest[Len(I)], <<P>>)

\* the last of the values that is not empty, `none` when all are
LastNonEmpty(values, none) ==
    LET last[i \in 0..Len(values)] ==
            IF i = 0 THEN none
            ELSE IF Truthy(values[i]) THEN values[i] ELSE last[i - 1]
    IN last[Len(values)]

\* C5: when every include of P loaded, load(P) returns the includes
\* composed in declared order with P composed on top: P's name, version,
\* description and instruction win when set, else the last include's that
\* sets them; P's session keys and agents are in the result as P has them
\* (scalars) and every agent of an include P does not define is kept
Thm_C5_IncludesThenBundle ==
    LoadReturned /\ ret.status = "ok" /\ ret.frame.bundle.includes # <<>>
                 /\ Len(ret.frame.included) = Len(ret.frame.bundle.includes)
        => LET I == ret.frame.included
               P == ret.frame.bundle
               all == Append(I, P)
               v == ret.value
           IN /\ [v EXCEPT !.source_uri = NoRef] = IncludesThenBundle(I, P)
              /\ v.name = LastNonEmpty([i \in 1..Len(all) |-> all[i].name], "")
              /\ v.description
                    = LastNonEmpty([i \in 1..Len(all) |-> all[i].description], "")
              /\ v.instruction
                    = LastNonEmpty([i \in 1..Len(all) |-> all[i].instruction], NoneVal)
              /\ v.version = P.version
              /\ \A k \in DOMAIN P.session :
                    ~IsMap(P.session[k]) => v.session[k] = P.session[k]
              /\ \A a \in DOMAIN P.agents : v.agents[a] = P.agents[a]
              /\ \A i \in 1..Len(I) : DOMAIN I[i].agents \subseteq DOMAIN v.agents

\* load(A) with two includes that loaded, both of which A overrides
Wit_C5_BundleOnTop ==
    /\ LoadReturned
    /\ ret.status = "ok"
    /\ Len(ret.frame.included) = 2
    /\ Len(ret.frame.bundle.includes) = 2
    /\ ret.frame.included[1].name # ret.frame.included[2].name
    /\ ret.value.name = "A"

(***************************************************************************)
(* Properties of compose                                                   *)
(***************************************************************************)
ModuleIds(specs) == [i \in 1..Len(specs) |-> ModuleOf(specs[i])]

IdSet(specs) == {ModuleOf(specs[i]) : i \in 1..Len(specs)}

SpecOf(specs, id) == specs[CHOOSE i \in 1..Len(specs) : ModuleOf(specs[i]) = id]

\* the elements of seq that are not in `seen`, each once, in order
RECURSIVE FirstSeen(_, _)
FirstSeen(seq, seen) ==
    IF seq = <<>> THEN <<>>
    ELSE IF Head(seq) \in seen THEN FirstSeen(Tail(seq), seen)
         ELSE <<Head(seq)>> \o FirstSeen(Tail(seq), seen \cup {Head(seq)})

\* r is the recursive merge of maps a and b with b winning on leaves
RECURSIVE MergedLaterWins(_, _, _)
MergedLaterWins(r, a, b) ==
    /\ DOMAIN r = (DOMAIN a) \cup (DOMAIN b)
    /\ \A k \in DOMAIN r :
          IF k \in DOMAIN a /\ k \in DOMAIN b
          THEN IF IsMap(a[k]) /\ IsMap(b[k])
               THEN IsMap(r[k]) /\ MergedLaterWins(r[k].m, a[k].m, b[k].m)
               ELSE r[k] = b[k]
          ELSE IF k \in DOMAIN b THEN r[k] = b[k] ELSE r[k] = a[k]

\* merged is `earlier` and `later` merged by module id in first-seen order
ModulesMerged(earlier, later, merged) ==
    /\ ModuleIds(merged) = FirstSeen(ModuleIds(earlier) \o ModuleIds(later), {})
    /\ \A i \in 1..Len(merged) :
          LET id == ModuleOf(merged[i])
          IN IF id \in IdSet(earlier) /\ id \in IdSet(later)
             THEN LET e == SpecOf(earlier, id)
                      l == SpecOf(later, id)
                  IN /\ DOMAIN merged[i] = (DOMAIN e) \cup (DOMAIN l)
                     /\ "config" \in (DOMAIN e) \cap (DOMAIN l) =>
                           /\ IsMap(merged[i]["config"])
                           /\ MergedLaterWins(merged[i]["config"].m,
                                              e["config"].m, l["config"].m)
                     /\ "config" \in (DOMAIN e) \ (DOMAIN l) =>
                           merged[i]["config"] = e["config"]
                     /\ "config" \in (DOMAIN l) \ (DOMAIN e) =>
                           merged[i]["config"] = l["config"]
             ELSE IF id \in IdSet(earlier) THEN merged[i] = SpecOf(earlier, id)
                  ELSE merged[i] = SpecOf(later, id)

\* the step of the fold that merges cOthers[cIdx'] into cResult
FoldingStep == cPhase = "fold" /\ cPhase' = "fold" /\ cIdx' = cIdx + 1

\* C6: every fold step of compose merges each of providers, tools and hooks
\* with the other's list by module id in first-seen order (result's modules
\* in their order, then the modules only the other has), one entry per
\* module, the configs of a module on both sides merged recursively with the
\* other's leaves winning.
Thm_C6_ModuleListsMergeByModule ==
    [][FoldingStep =>
         LET other == cOthers[cIdx']
         IN /\ ModulesMerged(cResult.providers, other.providers, cResult'.providers)
            /\ ModulesMerged(cResult.tools, other.tools, cResult'.tools)
            /\ ModulesMerged(cResult.hooks, other.hooks, cResult'.hooks)]_vars

\* {x:1,y:2} merged with {y:3,z:4}, followed by a module only the other has
Wit_C6_ConfigsMerged ==
    /\ cPhase = "done" /\ cIdx = 1
    /\ cSelf = PayBase("a") /\ cOthers[1] = PayOver("b")
    /\ cResult.providers =
         << [module |-> S("p"),
             config |-> M([x |-> S("1"), y |-> S("3"), z |-> S("4")])],
            [module |-> S("q")] >>
    /\ cResult.name = "b"

\* the value of the last element of vals satisfying nonEmpty (0 if none)
LastIndex(n, NonEmptyAt(_)) ==
    IF \E i \in 1..n : NonEmptyAt(i)
    THEN CHOOSE i \in 1..n : NonEmptyAt(i) /\ \A j \in (i + 1)..n : ~NonEmptyAt(j)
    ELSE 0

\* C7: name, version, description and instruction of the result are those of
\* the last bundle in fold order whose value is non-empty (None and "" are
\* empty); when every value is empty the result's value is empty too.
Thm_C7_LaterNonEmptyWins ==
    Composing =>
        LET bs == Folded
            n == Len(bs)
            iName == LastIndex(n, LAMBDA i : bs[i].name # "")
            iVer == LastIndex(n, LAMBDA i : bs[i].version # "")
            iDesc == LastIndex(n, LAMBDA i : bs[i].description # "")
            iIns == LastIndex(n, LAMBDA i : Truthy(bs[i].instruction))
        IN /\ IF iName > 0 THEN cResult.name = bs[iName].name
              ELSE cResult.name = ""
           /\ IF iVer > 0 THEN cResult.version = bs[iVer].version
              ELSE cResult.version = ""
           /\ IF iDesc > 0 THEN cResult.description = bs[iDesc].description
              ELSE cResult.description = ""
           /\ IF iIns > 0 THEN cResult.instruction = bs[iIns].instruction
              ELSE ~Truthy(cResult.instruction)

\* an empty name, version and instruction folded last over non-empty ones
Wit_C7_EmptyKeepsEarlier ==
    /\ cPhase = "done" /\ cIdx = 2
    /\ cSelf.name = "a" /\ cOthers[1].name = "b" /\ cOthers[2].name = ""
    /\ cOthers[1].version = "2.0.0" /\ cOthers[2].version = ""
    /\ Truthy(cOthers[1].instruction) /\ cOthers[2].instruction = ""
    /\ cResult.name = "b" /\ cResult.version = "2.0.0"
    /\ cResult.instruction = cOthers[1].instruction

\* C8: source_base_paths is a first-write-wins union: the result starts with
\* self's table, a fold step never changes or removes an entry, and an entry
\* it adds is either an entry of other's table or other.name -> other.base_path
\* with other.name and other.base_path set.
Thm_C8_SourceBasePathsFirstWriteWins ==
    [][/\ (cPhase = "input" /\ cPhase' = "fold") =>
            \A ns \in DOMAIN cSelf.source_base_paths :
                /\ ns \in DOMAIN cResult'.source_base_paths
                /\ cResult'.source_base_paths[ns] = cSelf.source_base_paths[ns]
       /\ FoldingStep =>
            LET other == cOthers[cIdx']
                before == cResult.source_base_paths
                after == cResult'.source_base_paths
            IN /\ \A ns \in DOMAIN before :
                     ns \in DOMAIN after /\ after[ns] = before[ns]
               /\ \A ns \in (DOMAIN after) \ (DOMAIN before) :
                     \/ /\ ns \in DOMAIN other.source_base_paths
                        /\ after[ns] = other.source_base_paths[ns]
                     \/ /\ ns = other.name /\ other.name # ""
                        /\ other.base_path # NoPath
                        /\ after[ns] = other.base_path]_vars

\* an other whose table and base_path both disagree with entries already set
Wit_C8_FirstWriteKept ==
    /\ cPhase = "done" /\ cIdx = 2
    /\ cSelf = PayOver("a") /\ cOthers[1] = PayBlank("b") /\ cOthers[2] = PayBase("b")
    /\ cResult.source_base_paths = [a |-> <<"root">>, b |-> <<"other">>]

\* C9: compose never drops keys: every session key, module id, agent name
\* and (prefixed) context key of self and of every folded other is present
\* in the result.
Thm_C9_NoKeyDropped ==
    Composing =>
        \A i \in 1..Len(Folded) :
            LET b == Folded[i]
            IN /\ DOMAIN b.session \subseteq DOMAIN cResult.session
               /\ IdSet(b.providers) \subseteq IdSet(cResult.providers)
               /\ IdSet(b.tools) \subseteq IdSet(cResult.tools)
               /\ IdSet(b.hooks) \subseteq IdSet(cResult.hooks)
               /\ DOMAIN b.agents \subseteq DOMAIN cResult.agents
               /\ \A key \in ODKeys(b.context) :
                     (IF b.name # "" /\ Len(key) = 1 THEN <<b.name>> \o key ELSE key)
                        \in ODKeys(cResult.context)

\* three bundles with overlapping and distinct keys in every section
Wit_C9_KeysAccumulated ==
    /\ cPhase = "done" /\ cIdx = 2
    /\ cSelf = PayBase("a") /\ cOthers[1] = PayOver("b") /\ cOthers[2] = PayBlank("")
    /\ DOMAIN cResult.session = {"orchestrator", "context", "extra"}
    /\ DOMAIN cResult.agents = {"ag1", "ag2"}
    /\ ODKeys(cResult.context) = {<<"a", "k1">>, <<"b", "k1">>, <<"a", "k2">>, <<"k2">>}

\* C10: composing in two nested calls gives the same session, providers,
\* tools, hooks and agents as one call with all the others.
Thm_C10_ComposeAssociative ==
    cPhase = "regrouped" =>
        /\ cNested.session = cResult.session
        /\ cNested.providers = cResult.providers
        /\ cNested.tools = cResult.tools
        /\ cNested.hooks = cResult.hooks
        /\ cNested.agents = cResult.agents

\* A.compose(B).compose(C) against A.compose(B, C), all three with content
Wit_C10_Regrouped ==
    /\ cPhase = "regrouped" /\ Len(cOthers) = 2 /\ cSplit = 1
    /\ cSelf = PayBase("a") /\ cOthers[1] = PayOver("b") /\ cOthers[2] = PayBlank("")
    /\ Len(cResult.providers) = 2

\* Bundle(name=""): a bundle constructed with an empty name and no other field
EmptyBundle == DefaultBundle("")

\* the fields the right identity is stated on
VisibleFields(b) ==
    [name |-> b.name, version |-> b.version, description |-> b.description,
     session |-> b.session, providers |-> b.providers, tools |-> b.tools,
     hooks |-> b.hooks, agents |-> b.agents, instruction |-> b.instruction,
     base_path |-> b.base_path]

ComposedWithEmpty == cPhase = "done" /\ cOthers = <<EmptyBundle>>

\* C11: B.compose(EmptyBundle) equals B on name, version, description,
\* session, providers, tools, hooks, agents, instruction and base_path,
\* whatever B's version is, and its context is B's context with the
\* un-namespaced keys prefixed with B's name once
Orig_C11_ComposeRightIdentity ==
    ComposedWithEmpty
        => /\ VisibleFields(cResult) = VisibleFields(cSelf)
           /\ cResult.context = AddPrefixed(<<>>, cSelf.name, cSelf.context)

(***************************************************************************)
(* Properties of compose and to_mount_plan on objects                      *)
(***************************************************************************)
\* the Bundle instance id of heap h and the lists and dicts its fields
\* refer to
ObjectsOf(h, id) == {id} \cup {h[id].refs[f] : f \in DOMAIN h[id].refs}

\* the objects of self and of each other of the compose call
InputObjects ==
    UNION {ObjectsOf(PoolHeap, id) :
              id \in {hSelf} \cup {hOthers[i] : i \in 1..Len(hOthers)}}

\* C12: compose returns a Bundle instance that is none of its arguments,
\* and during and after the call self and every other, and every list and
\* dict their fields refer to (includes, session, module lists, agents,
\* context, source_base_paths, _pending_context), hold what they held
\* before the call (PoolHeap, the heap the call starts on)
Thm_C12_ComposeLeavesInputsUnchanged ==
    hPhase \in {"fold", "done"}
        => /\ hResult \notin InputObjects
           /\ \A o \in InputObjects : heap[o] = PoolHeap[o]

\* self.compose(self, other) done: the result's agents and context were
\* updated in place and differ from self's
Wit_C12_ResultUpdatedInPlace ==
    /\ hPhase = "done"
    /\ Len(hOthers) = 2
    /\ hOthers[1] = hSelf
    /\ heap[heap[hResult].refs.agents] # heap[heap[hSelf].refs.agents]
    /\ heap[heap[hResult].refs.context] # heap[heap[hSelf].refs.context]
    /\ heap[heap[hResult].refs.source_base_paths]
          # heap[heap[hSelf].refs.source_base_paths]

PlanSections == {"session", "providers", "tools", "hooks", "agents"}

\* C13: to_mount_plan() returns a dict whose keys are exactly the sections
\* among session, providers, tools, hooks, agents that are non-empty in
\* the bundle ({} when none is), each bound to a new object equal to the
\* bundle's value, and the call changes neither the Bundle instance nor
\* any list or dict its fields refer to
Thm_C13_MountPlanNonEmptySections ==
    [][hPhase' = "planned" /\ hPhase # "planned"
        => LET self == heap[hTarget']
               plan == heap'[hPlan']
           IN /\ DOMAIN plan = {k \in PlanSections : heap[self.refs[k]] # <<>>}
              /\ \A k \in DOMAIN plan :
                    /\ heap'[plan[k]] = heap[self.refs[k]]
                    /\ plan[k] \notin 1..Len(heap)
              /\ \A o \in ObjectsOf(heap, hTarget') : heap'[o] = heap[o]]_vars

\* a plan with some sections and without others, made from a composed bundle
Wit_C13_PlanOfSomeSections ==
    /\ hPhase = "planned"
    /\ hTarget = hResult
    /\ Cardinality(DOMAIN heap[hPlan]) \in 1..4

(***************************************************************************)
(* Properties of namespaces and sub-bundle discovery                       *)
(***************************************************************************)
\* paths/construction.py: base / "context" / "<name>.md"
construct_context_path(base, name) == base \o <<"context", name \o ".md">>

\* the context entry key -> path of a bundle with namespace table paths
\* resolves under the table's directory for its namespace: the path is the
\* context file `rest` of that directory, or a file mapped directly in it
ResolvesUnderNamespace(paths, key, path) ==
    /\ key[1] \in DOMAIN paths
    /\ \/ path = construct_context_path(paths[key[1]], key[2])
       \/ Parent(path) = paths[key[1]]

\* C14: in every bundle compose returns, source_base_paths[ns] is defined
\* for every context key ns:rest and is the base directory under which the
\* path stored for that key resolves, also for a sub-bundle whose own
\* namespace is mapped to the source root while its context entries were
\* resolved against its own directory
Orig_C14_NamespaceResolvesContext ==
    cPhase = "done"
        => \A i \in 1..Len(cResult.context) :
              Len(cResult.context[i].k) > 1
                  => ResolvesUnderNamespace(cResult.source_base_paths,
                                            cResult.context[i].k,
                                            cResult.context[i].v)

\* the directories from start up to stop, both included
DirsUpTo(start, stop) ==
    {SubSeq(start, 1, n) : n \in Len(stop)..Len(start)}

\* the names of the bundles, other than the one loaded, that have a bundle
\* file at or above the loaded path within the source root
RootsAbove(frame) ==
    LET start == IF IsFile(frame.active) THEN Parent(frame.active)
                 ELSE frame.active
        dirs == {d \in DirsUpTo(start, frame.root) :
                    SubSeq(d, 1, Len(frame.root)) = frame.root}
    IN {FileBundle(BundleFileFor(d), <<>>).name :
            d \in {e \in dirs : BundleFileFor(e) # NoPath}}
          \ {frame.bundle.name}

\* a load returned the bundle of the directory <root>/<sub>, where <root>
\* holds a bundle file too
SubdirectoryLoaded ==
    /\ LoadReturned
    /\ ret.arg.kind = "file"
    /\ ret.arg.sub # <<>>
    /\ IsDir(ret.arg.path) /\ BundleFileFor(ret.arg.path) # NoPath
    /\ IsDir(ret.arg.path \o ret.arg.sub)
    /\ BundleFileFor(ret.arg.path \o ret.arg.sub) # NoPath

\* C15: loading file://<root>#subdirectory=<sub>, <root> with a root bundle
\* file and <root>/<sub> with its own bundle file declaring name N, returns
\* the bundle named N whose source_base_paths[N] is <root>, not <root>/<sub>
Thm_C15_SubdirectoryNamespaceIsSourceRoot ==
    SubdirectoryLoaded
        => LET N == FileBundle(BundleFileFor(ret.arg.path \o ret.arg.sub), <<>>).name
           IN /\ ret.status = "ok"
              /\ ret.value.name = N
              /\ N \in DOMAIN ret.value.source_base_paths
              /\ ret.value.source_base_paths[N] = ret.arg.path
              /\ ret.value.source_base_paths[N] # ret.arg.path \o ret.arg.sub

\* file:///a#subdirectory=sub loaded: bundle S of /a/sub below root bundle A
Wit_C15_SubdirectoryOfRootLoaded ==
    /\ SubdirectoryLoaded
    /\ ret.arg = SubdirURI(DirA, <<"sub">>)
    /\ ret.value.name = "S"
    /\ ret.value.base_path = DirASub

\* C16: a load of a sub-bundle below the source root, with the bundle file
\* of a different bundle R at or above it within the source root, returns
\* a bundle with source_base_paths[R] = source_root, and the row created
\* for the loaded bundle has is_root = false and root_name = R
Orig_C16_SubBundleKnowsItsRoot ==
    LoadReturned /\ ret.status = "ok" /\ ret.frame.active # ret.frame.root
        => \A R \in RootsAbove(ret.frame) :
              /\ R \in DOMAIN ret.value.source_base_paths
              /\ ret.value.source_base_paths[R] = ret.frame.root
              /\ ret.frame.bundle.name \notin DOMAIN ret.rows
                    => /\ registry[ret.frame.bundle.name].is_root = FALSE
                       /\ registry[ret.frame.bundle.name].root_name = R

\* C17: a load with no root bundle distinct from the loaded bundle (a root
\* bundle loaded from its directory, a subdirectory bundle with no bundle
\* file above it within the source root) returns, when no include is
\* composed in, a bundle whose source_base_paths has no entry for the
\* bundle's own name
Orig_C17_NoOwnNamespaceWithoutRoot ==
    (LoadReturned /\ ret.status = "ok" /\ ret.frame.included = <<>>
        /\ RootsAbove(ret.frame) = {})
        => ret.value.name \notin DOMAIN ret.value.source_base_paths
(***************************************************************************)
(* Properties of register and of the saved registry                        *)
(***************************************************************************)
\* the fields of a row that register() never sets
StateFields ==
    {"version", "loaded_at", "checked_at", "local_path", "includes",
     "included_by", "is_root", "root_name"}

\* C18: register is an upsert that preserves state: the row of a name
\* that was registered already keeps every field but uri, which becomes the
\* one given; a new name gets a row with only uri and name set; the rows of
\* the other names are as they were.
Thm_C18_RegisterPreservesState ==
    [][ret'.kind = "register"
        => LET bundles == ret'.registered
           IN /\ DOMAIN registry' = DOMAIN registry \cup DOMAIN bundles
              /\ \A n \in DOMAIN registry' :
                    IF n \notin DOMAIN bundles THEN registry'[n] = registry[n]
                    ELSE /\ registry'[n].uri = bundles[n]
                         /\ IF n \in DOMAIN registry
                            THEN /\ registry'[n].name = registry[n].name
                                 /\ \A f \in StateFields :
                                       registry'[n][f] = registry[n][f]
                            ELSE /\ registry'[n].name = n
                                 /\ registry'[n].version = NoneVal
                                 /\ registry'[n].loaded_at = 0
                                 /\ registry'[n].checked_at = 0
                                 /\ registry'[n].local_path = NoPath
                                 /\ registry'[n].includes = NoList
                                 /\ registry'[n].included_by = NoList
                                 /\ registry'[n].is_root
                                 /\ registry'[n].root_name = NoneVal]_vars

\* register() met a loaded row with another uri, a new name, and a row it
\* was not given
Wit_C18_RegisteredOverLoadedRow ==
    /\ Idle
    /\ ret.kind = "register"
    /\ \E n \in DOMAIN ret.registered \cap DOMAIN ret.rows :
          /\ ret.rows[n].version # NoneVal
          /\ ret.rows[n].includes # NoList
          /\ ret.rows[n].uri # ret.registered[n]
    /\ DOMAIN ret.registered \ DOMAIN ret.rows # {}
    /\ \E n \in DOMAIN ret.rows \ DOMAIN ret.registered :
          ret.rows[n].included_by # NoList

\* C19: a registry constructed on the home right after save() has the
\* names of the registry that was saved, and every row has the same uri,
\* name, version, is_root, includes and included_by.
Thm_C19_SaveThenReopenKeepsRows ==
    [][ret.kind = "save" /\ ret'.kind = "reopen"
        => /\ DOMAIN registry' = DOMAIN registry
           /\ \A n \in DOMAIN registry :
                 \A f \in {"uri", "name", "version", "is_root", "includes",
                            "included_by"} :
                    registry'[n][f] = registry[n][f]]_vars

\* a registry with loaded rows, include relationships and a name that was
\* only registered has been saved and constructed anew
Wit_C19_ReopenedAfterSave ==
    /\ ret.kind = "reopen"
    /\ ret.rows = registry
    /\ disk = Saved(ret.rows)
    /\ \E n \in DOMAIN registry : registry[n].includes # NoList
    /\ \E n \in DOMAIN registry : registry[n].included_by # NoList
    /\ \E n \in DOMAIN registry : registry[n].version = NoneVal

(***************************************************************************)
(* Properties of parse_mentions                                            *)
(***************************************************************************)
\* a character that belongs to no mention, put where code was removed
Gap == " "

\* the text without its code, with a Gap wherever _remove_code_blocks
\* removed something: the characters outside code, apart as they are in the
\* text
OutsideCode(text) ==
    LET kept == StripMarked(Mark(text))
        F[i \in 0..Len(kept)] ==
            IF i = 0 THEN <<>>
            ELSE IF i > 1 /\ kept[i].at # kept[i - 1].at + 1
                 THEN F[i - 1] \o <<Gap, kept[i].ch>>
                 ELSE Append(F[i - 1], kept[i].ch)
    IN F[Len(kept)]

\* C20: parse_mentions returns the mentions that occur in the text
\* outside fenced code blocks and inline code spans, each once, in the order
\* of their first occurrence.
Orig_C20_MentionsOutsideCode ==
    mPhase = "done" => mResult = Unique(FindAll(OutsideCode(mText), 1))

\* an address has its @ at position i: a character of a local part before
\* it, a domain with a dot and two letters after it
AddressAt(s, i) ==
    /\ s[i] = "@"
    /\ i > 1
    /\ s[i - 1] \in EmailLocalChars
    /\ \E m \in 1..Len(s) :
          /\ i + m + 3 <= Len(s)
          /\ \A q \in (i + 1)..(i + m) : s[q] \in EmailDomainChars
          /\ s[i + m + 1] = "."
          /\ s[i + m + 2] \in Lower \cup Upper
          /\ s[i + m + 3] \in Lower \cup Upper

\* the mention read at the @ of position i
MentionAt(s, i) == SubSeq(s, i, i + RunLength(s, i + 1))

\* C21: no mention is produced from the @ of an email address: what
\* follows such an @ is returned only if it is also the mention at an @ that
\* belongs to no address.
Orig_C21_NoMentionFromAddress ==
    mPhase = "done"
        => \A i \in 1..Len(mStripped) :
              (AddressAt(mStripped, i)
                  /\ \E k \in 1..Len(mResult) : mResult[k] = MentionAt(mStripped, i))
              => \E j \in 1..Len(mStripped) :
                    /\ mStripped[j] = "@"
                    /\ ~AddressAt(mStripped, j)
                    /\ MentionAt(mStripped, j) = MentionAt(mStripped, i)

(***************************************************************************)
(* Properties of load_mentions and of the deduplicator                     *)
(***************************************************************************)
\* what a read of the path gives cannot be used as text
Unreadable(path) == path \notin DOMAIN fsys \/ fsys[path].kind # "text"

\* C22: a missing mention is never an error: load_mentions raises nothing
\* and returns one result per top-level mention of the text, in order, each
\* without error, and not found when the mention does not resolve or its
\* file cannot be read.
Orig_C22_MissingMentionNeverRaises ==
    \A t \in 1..Len(inv) :
        /\ inv[t].pc # "raised"
        /\ inv[t].pc = "returned"
            => /\ Len(inv[t].results) = Len(parse_mentions(inv[t].text))
               /\ \A i \in 1..Len(inv[t].results) :
                     LET result == inv[t].results[i]
                     IN /\ result.mention = parse_mentions(inv[t].text)[i]
                        /\ result.error = NoneVal
                        /\ (result.resolved_path = NoPath
                              \/ Unreadable(result.resolved_path))
                            => ~Found(result)

\* the add_file calls of the log that brought a content for the first time
FirstAdds(log) ==
    SelectSeq([i \in 1..Len(log) |-> [at |-> i, call |-> log[i]]],
              LAMBDA e : \A j \in 1..(e.at - 1) : log[j].content # e.call.content)

\* C23: after any add_file calls the deduplicator holds one ContextFile per
\* distinct content, with the path of the first add of that content and the
\* SHA-256 of the content, in the order of first addition; add_file
\* returned true exactly for the first add of a content.
Thm_C23_OneFilePerContent ==
    \A t \in 1..Len(inv) :
        LET log == inv[t].adds
            files == get_unique_files(inv[t].dedup)
            first == FirstAdds(log)
        IN /\ Len(files) = Len(first)
           /\ \A i \in 1..Len(files) :
                 /\ files[i].path = first[i].call.path
                 /\ files[i].content = first[i].call.content
                 /\ files[i].content_hash = Sha256(files[i].content)
           /\ \A i, j \in 1..Len(files) :
                 files[i].content = files[j].content => i = j
           /\ \A i \in 1..Len(log) :
                 log[i].added <=> \A j \in 1..(i - 1) : log[j].content # log[i].content

\* the same content was added under two paths, after another content
Wit_C23_SameContentTwoPaths ==
    \E t \in 1..Len(inv) :
        LET log == inv[t].adds
        IN /\ Len(get_unique_files(inv[t].dedup)) = 2
           /\ \E i, j \in 1..Len(log) :
                 /\ i < j
                 /\ log[i].content = log[j].content
                 /\ log[i].path # log[j].path
                 /\ ~log[j].added

\* the files the mentions of a text resolve to
MentionedBy(text) ==
    {resolve(fsys, LoaderBundles, ParsedMentions[text][i]) :
        i \in 1..Len(ParsedMentions[text])} \ {NoPath}

\* the files within `levels` levels of nested mentions below the top-level
\* mentions of a text
RECURSIVE WithinLevels(_, _)
WithinLevels(text, levels) ==
    IF levels = 0 THEN MentionedBy(text)
    ELSE LET nearer == WithinLevels(text, levels - 1)
         IN nearer \cup UNION {MentionedBy(fsys[q].content) :
                                  q \in {r \in nearer : ~Unreadable(r)}}

LoadEnded(t) == inv[t].pc \in {"returned", "raised"}

\* C24: load_mentions ends on every set of files, files that mention each
\* other or themselves included, and reads no file that is more than
\* max_depth levels of nested mentions below the top-level mentions.
Thm_C24_LoadEndsWithinDepth ==
    /\ <>(\A t \in 1..Len(inv) : LoadEnded(t))
    /\ [](\A t \in 1..Len(inv) : \A i \in 1..Len(inv[t].reads) :
             /\ inv[t].reads[i].depth <= inv[t].max_depth
             /\ inv[t].reads[i].path \in WithinLevels(inv[t].text, inv[t].max_depth))

\* a load over files that mention each other in a cycle has ended, a file
\* was read at max_depth, and a text file one level further down was not
Wit_C24_CycleEndedDeeperFileUnread ==
    \E t \in 1..Len(inv) :
        /\ inv[t].pc = "returned"
        /\ inv[t].max_depth > 0
        /\ \E i \in 1..Len(inv[t].reads) : inv[t].reads[i].depth = inv[t].max_depth
        /\ \E q \in WithinLevels(inv[t].text, inv[t].max_depth + 1) :
              /\ ~Unreadable(q)
              /\ \A i \in 1..Len(inv[t].reads) : inv[t].reads[i].path # q
        /\ \E i \in 1..Len(inv[t].adds) : ~inv[t].adds[i].added

(***************************************************************************)
(* Properties of the system-prompt factory                                 *)
(***************************************************************************)
Infix(sub, s) ==
    \E i \in 0..(Len(s) - Len(sub)) : SubSeq(s, i + 1, i + Len(sub)) = sub

\* the names under which a path is a declared context file of the bundle
DeclaredAs(path) ==
    {PromptBundle.context_items[i].name :
        i \in {j \in 1..Len(PromptBundle.context_items) :
                  PromptBundle.context_items[j].path = path}}

\* invocation t is the latest, has returned its prompt, and the files are
\* as it read them
PromptOfLatest(t) ==
    /\ t = Len(inv)
    /\ inv[t].pc = "prompt"
    /\ inv[t].files = fsys

\* the prompt of invocation t holds the new content of the file at path and
\* nothing of what the file held before
FreshIn(t, path, before) ==
    LET prompt == inv[t].prompt
        blocks == prompt.context_block
    IN /\ \A name \in DeclaredAs(path) :
             /\ Infix(ContextPart(name, fsys[path].content), prompt.instruction)
             /\ before.kind = "text"
                    => ~Infix(ContextPart(name, before.content), prompt.instruction)
       /\ path \in WithinLevels(inv[t].text, inv[t].max_depth)
             => /\ \E i \in 1..Len(blocks) : blocks[i].content = fsys[path].content
                /\ before.kind = "text"
                      => ~\E i \in 1..Len(blocks) :
                             /\ blocks[i].path = path
                             /\ blocks[i].content = before.content

\* C25: when a declared context file or a mentioned file was changed between
\* two invocations of the factory, the prompt of the second invocation holds
\* the new content of that file and not the content it had before.
Thm_C25_SecondPromptIsFresh ==
    \A t \in 2..Len(inv) :
        PromptOfLatest(t)
            => \A path \in DOMAIN fsys :
                  (fsys[path] # inv[t - 1].files[path] /\ fsys[path].kind = "text")
                      => FreshIn(t, path, inv[t - 1].files[path])

\* file b, a declared context file that is also mentioned, was rewritten
\* after a first prompt that held its content, and a second prompt returned
Wit_C25_RewrittenBetweenPrompts ==
    /\ Len(inv) = 2
    /\ PromptOfLatest(2)
    /\ inv[1].pc = "prompt"
    /\ inv[1].files[PathB].kind = "text" /\ fsys[PathB].kind = "text"
    /\ inv[1].files[PathB] # fsys[PathB]
    /\ \E i \in 1..Len(inv[1].prompt.context_block) :
          /\ inv[1].prompt.context_block[i].path = PathB
          /\ inv[1].prompt.context_block[i].content = inv[1].files[PathB].content
    /\ PathB \in WithinLevels(inv[2].text, inv[2].max_depth)

\* _resolve_mention for mentions[i], mentions[i + 1], ... one after the
\* other, nothing else running: the deduplicator, the results and whether an
\* exception left the load
RECURSIVE ResolveInTurn(_, _, _, _, _, _)
ResolveInTurn(files, sofar, mentions, i, depth, max_depth) ==
    IF sofar.raised \/ i > Len(mentions) THEN sofar
    ELSE LET mention == mentions[i]
             path == resolve(files, LoaderBundles, mention)
             file == IF path = NoPath THEN Missing ELSE files[path]
             offered == add_file(sofar.dedup, path, file.content)
             nothing == [sofar EXCEPT !.results =
                            Append(@, MentionResult(mention, path, NoContent))]
             below == IF DepthAllows(depth, max_depth)
                      THEN ResolveInTurn(files,
                                         [dedup |-> offered.dedup, results |-> <<>>,
                                          raised |-> FALSE],
                                         ParsedMentions[file.content], 1,
                                         depth + 1, max_depth)
                      ELSE [dedup |-> offered.dedup, results |-> <<>>,
                            raised |-> FALSE]
             next == CASE path = NoPath -> nothing
                       [] file.kind = "binary" -> [sofar EXCEPT !.raised = TRUE]
                       [] file.kind # "text" -> nothing
                       [] ~offered.added -> nothing
                       [] OTHER ->
                            [dedup |-> below.dedup,
                             results |-> Append(sofar.results,
                                                MentionResult(mention, path,
                                                              file.content)),
                             raised |-> below.raised]
         IN ResolveInTurn(files, next, mentions, i + 1, depth, max_depth)

\* what one invocation of the factory gives when it runs alone on the files
PromptAlone(files) ==
    LET read == InstructionParts(files, PromptBundle)
        text == CombinedInstruction(PromptBundle, read.parts)
        load == ResolveInTurn(files,
                              [dedup |-> NewDeduplicator, results |-> <<>>,
                               raised |-> FALSE],
                              ParsedMentions[text], 1, 0, DefaultMaxDepth)
    IN IF read.exc # "" \/ load.raised THEN NoPrompt
       ELSE SystemPrompt(format_context_block(load.dedup,
                                              mention_to_path(load.results)), text)

\* C26: every invocation of the factory, also one that ran interleaved with
\* another invocation of the same session, returns the prompt it returns when
\* it runs alone on the same files, and raises only if it raises alone.
Thm_C26_InterleavedPromptAsAlone ==
    \A t \in 1..Len(inv) :
        FactoryEnded(t) => inv[t].prompt = PromptAlone(inv[t].files)

\* the second invocation began while the first was under way and waiting to
\* read file c again; both returned a prompt with the same blocks
Wit_C26_TwoInterleavedPrompts ==
    /\ Len(inv) = 2
    /\ inv[2].during = {1}
    /\ inv[1].pc = "prompt" /\ inv[2].pc = "prompt"
    /\ Len(inv[1].prompt.context_block) >= 2
    /\ inv[1].prompt.context_block = inv[2].prompt.context_block
    /\ fsys[PathC].kind = "eio"

(***************************************************************************)
(* Properties of spawn                                                     *)
(***************************************************************************)
\* the positions in the calls made on the child session where operation is
EventsOf(operation) ==
    {i \in 1..Len(spawned.events) : spawned.events[i].call = operation}

SpawnEnded == spawned.pc \in {"returned", "propagated"}

\* C27: once execute of the child session has been invoked, spawn does not
\* return or propagate before cleanup has been called, and cleanup is called
\* once: after execute returned, raised or was cancelled. A spawn that
\* returns, returns the response of execute and the id of the child session.
Thm_C27_CleanupOnceAfterExecute ==
    /\ Cardinality(EventsOf("cleanup")) <= 1
    /\ \A i \in EventsOf("cleanup") : \E j \in EventsOf("execute") : j < i
    /\ (SpawnEnded /\ EventsOf("execute") # {})
           => Cardinality(EventsOf("cleanup")) = 1
    /\ spawned.pc = "returned"
           => /\ spawned.response = "response"
              /\ spawned.result = [output |-> spawned.response,
                                   session_id |->
                                       ChildSessionId(spawned.args.session_id)]

\* execute was cancelled, cleanup was called and the cancellation left spawn
Wit_C27_CancelledThenCleanedUp ==
    /\ spawned.pc = "propagated"
    /\ spawned.exc = "CancelledError"
    /\ EventsOf("execute") # {}
    /\ Cardinality(EventsOf("cleanup")) = 1

\* C28: set_messages is called on the child's context only with the parent's
\* messages, only when parent_messages is set and no session id was given;
\* with a session id given it is never called.
Thm_C28_MessagesOnlyForNewSession ==
    /\ \A i \in EventsOf("set_messages") :
          /\ spawned.events[i].arg = spawned.args.parent_messages
          /\ spawned.args.parent_messages \notin {NoMessages, <<>>}
          /\ spawned.args.session_id = NoneVal
    /\ spawned.args.session_id # NoneVal => EventsOf("set_messages") = {}

\* a new session was given the parent's messages before it executed
Wit_C28_MessagesInjected ==
    /\ EventsOf("set_messages") # {}
    /\ EventsOf("execute") # {}
    /\ spawned.args.session_id = NoneVal

(***************************************************************************)
(* Properties of parse_uri and of the validator                            *)
(***************************************************************************)
HasReturned(fn) == applied.fn = fn /\ applied.pc = "returned"

GivesSubdirectory(parts) == parts.subdirectory # NoPath /\ parts.subdirectory # <<>>

\* C29: for a git+ or zip+ URI with an @ref part, parse_uri gives the scheme
\* with its prefix, the host, the path without the @ref part and the ref; the
\* subpath is the subdirectory of the fragment when the fragment gives a
\* non-empty one, also when a legacy subpath follows the ref, and the legacy
\* subpath otherwise.
Thm_C29_FragmentSubdirectoryWins ==
    (HasReturned("parse_uri") /\ applied.parts.ref # <<>>)
        => LET parts == applied.parts
           IN applied.ret =
                 ParsedURI(parts.prefix \o parts.scheme, parts.host, parts.path,
                           parts.ref,
                           IF GivesSubdirectory(parts) THEN parts.subdirectory
                           ELSE parts.legacy)

\* a URI with user@host, @ref/legacy and a fragment of two pairs was parsed
\* and the subpath is the one of the fragment
Wit_C29_BothSubpathsGiven ==
    /\ HasReturned("parse_uri")
    /\ applied.parts.ref # <<>>
    /\ applied.parts.legacy = <<"s", "/", "t">>
    /\ applied.parts.subdirectory = <<"x", "/", "y">>
    /\ applied.parts.egg
    /\ applied.parts.host = <<"g", "@", "h", ".", "c">>
    /\ applied.ret.subpath = <<"x", "/", "y">>

WellFormedModules(modules) ==
    \A i \in 1..Len(modules) :
        /\ IsDict(modules[i])
        /\ "module" \in DOMAIN modules[i].items
        /\ "config" \in DOMAIN modules[i].items => IsDict(modules[i].items["config"])

\* a session sub-field that is there and is a scalar, not a string
ScalarNotString(value) == value.type \notin {"NoneType", "str", "dict", "list"}

ErrorsAbout(field_name) ==
    {i \in 1..Len(applied.ret.errors) : applied.ret.errors[i][1] = field_name}

\* C30: a bundle with a name, well-formed module lists and agents and a
\* session mapping whose orchestrator and context are strings or mappings is
\* valid, without errors; an error about session.orchestrator or
\* session.context is reported exactly for a scalar that is not a string.
Orig_C30_SessionRecordsAccepted ==
    (HasReturned("validate") /\ IsDict(applied.arg.session))
        => LET bundle == applied.arg
               orchestrator == PyGet(bundle.session, "orchestrator")
               context == PyGet(bundle.session, "context")
           IN /\ (/\ PyTruthy(bundle.name)
                  /\ WellFormedModules(bundle.providers)
                  /\ WellFormedModules(bundle.tools)
                  /\ WellFormedModules(bundle.hooks)
                  /\ \A i \in 1..Len(bundle.agents) : IsDict(bundle.agents[i].value)
                  /\ ~ScalarNotString(orchestrator)
                  /\ ~ScalarNotString(context))
                    => applied.ret.valid /\ applied.ret.errors = <<>>
              /\ ErrorsAbout("session.orchestrator") # {}
                    <=> ScalarNotString(orchestrator)
              /\ ErrorsAbout("session.context") # {} <=> ScalarNotString(context)

Retrying == applied.fn \in {"read_with_retry", "write_with_retry"}

\* the tries and the sleeps of the operation, in the order made
TriesAndSleeps == SelectSeq(applied.called, LAMBDA made : made.name # "write_text")

TriesMade == Len(SelectSeq(applied.called, LAMBDA made : made.name \in {"read_text", "mkdir"}))

SleepsMade == SelectSeq(applied.called, LAMBDA made : made.name = "sleep")

IsEIO(error) == error.type = "OSError" /\ error.errno = EIO

\* C31: read_with_retry and write_with_retry try at most 3 times; a further
\* try is made only after a try that raised OSError with errno 5, after a
\* sleep of 0.1 s and then of 0.2 s; the try that succeeds ends the operation
\* with its result; the try that raises anything else, or the third try
\* when it raises, ends the operation with that try's own exception.
Thm_C31_RetryOnlyAfterEIO ==
    Retrying =>
        /\ TriesMade <= 3
        /\ \A i \in 1..Len(TriesAndSleeps) :
              (TriesAndSleeps[i].name = "sleep") <=> (i % 2 = 0)
        /\ \A i \in 1..Len(SleepsMade) :
              /\ i <= 2
              /\ SleepsMade[i].delay = (IF i = 1 THEN 100 ELSE 200)
              /\ IsEIO(applied.script[i])
        /\ \A i \in 1..(TriesMade - 1) :
              IsEIO(applied.script[i]) /\ Len(SleepsMade) >= i
        /\ applied.pc = "returned" =>
              /\ TriesMade >= 1
              /\ applied.script[TriesMade].type = "none"
              /\ applied.ret = (IF applied.fn = "read_with_retry"
                                THEN applied.content ELSE NoContent)
        /\ applied.pc = "raised" =>
              /\ TriesMade >= 1
              /\ applied.exc = applied.script[TriesMade]
              /\ applied.exc.type # "none"
              /\ applied.exc.try = TriesMade
              /\ IsEIO(applied.exc) => TriesMade = 3
              /\ Len(SleepsMade) = TriesMade - 1
        /\ (TriesMade >= 1 /\ applied.pc = "try") => IsEIO(applied.script[TriesMade])
        /\ (TriesMade >= 1 /\ applied.script[TriesMade].type = "none")
              => applied.pc = "returned"
        /\ (TriesMade >= 1 /\ ~IsEIO(applied.script[TriesMade])
                /\ applied.script[TriesMade].type # "none") => applied.pc = "raised"

\* a write whose three tries raised errno 5 has slept twice and raised the
\* third error
Wit_C31_ThirdFailurePropagated ==
    /\ applied.fn = "write_with_retry"
    /\ applied.pc = "raised"
    /\ TriesMade = 3
    /\ IsEIO(applied.exc)
    /\ applied.exc.try = 3
    /\ Len(SleepsMade) = 2

\* the directory itself and the directories above it
RECURSIVE UpFrom(_)
UpFrom(dir) == IF dir = <<>> THEN {<<>>} ELSE {dir} \cup UpFrom(Parent(dir))

\* dir is stop or lies below it
Within(dir, stop) == Len(dir) >= Len(stop) /\ SubSeq(dir, 1, Len(stop)) = stop

HasBundleFile(present, dir) ==
    dir \o <<"bundle.md">> \in present \/ dir \o <<"bundle.yaml">> \in present

\* C32: _find_nearest_bundle_file returns the bundle file of the nearest
\* directory from start up to stop that holds one, bundle.md before
\* bundle.yaml; None when no directory from start up to stop holds one;
\* never a file of a directory above stop.
Orig_C32_NearestBetweenStartAndStop ==
    HasReturned("find_nearest_bundle_file") =>
        LET range == {dir \in UpFrom(applied.start) : Within(dir, applied.stop)}
            holding == {dir \in range : HasBundleFile(applied.present, dir)}
        IN /\ holding = {} => applied.ret = NoPath
           /\ holding # {} =>
                LET nearest == CHOOSE dir \in holding : \A other \in holding : Len(other) <= Len(dir)
                IN applied.ret = IF nearest \o <<"bundle.md">> \in applied.present
                                 THEN nearest \o <<"bundle.md">>
                                 ELSE nearest \o <<"bundle.yaml">>
           /\ applied.ret # NoPath =>
                ~(Parent(applied.ret) # applied.stop /\ Within(applied.stop, Parent(applied.ret)))

\* C33: a clone root that a successful clone has populated is neither
\* removed nor cloned again by any later resolve, and a resolve that finds
\* the clone root and the requested path returns them without cloning.
Orig_C33_PopulatedEntryKept ==
    [][/\ \A cache_path \in DOMAIN fsys :
            fsys[cache_path].state = "cloned" => fsys'[cache_path] = fsys[cache_path]
       /\ (/\ applied.pc = "check"
           /\ TreeHas(fsys[CachePath(applied.parsed)], <<>>)
           /\ TreeHas(fsys[CachePath(applied.parsed)], applied.parsed.subpath))
            => /\ applied'.pc = "returned"
               /\ applied'.ret = ResolvedSource(ResultPath(applied.parsed),
                                                CachePath(applied.parsed))
               /\ fsys' = fsys]_vars

\* directory / body
JoinPath(directory, body) ==
    IF directory = <<>> THEN body ELSE directory \o <<"/">> \o body

\* a mention without a namespace
IsRelativeMention(mention) ==
    /\ mention # <<>>
    /\ Head(mention) = "@"
    /\ \A i \in 1..Len(mention) : mention[i] # ":"

\* C34: a relative mention found in a loaded file at path P is resolved
\* against P.parent: the path the loader takes for it is P.parent / body when
\* that exists, else P.parent / body.md when that exists, else none.
Orig_C34_NestedRelativeToParent ==
    \A t \in 1..Len(inv) : \A i \in 2..Len(inv[t].stack) :
        LET frame == inv[t].stack[i]
            parent == PathParent(inv[t].stack[i - 1].path)
            body == Tail(frame.mention)
        IN (frame.pc # "resolve" /\ IsRelativeMention(frame.mention)) =>
              frame.path = IF PathExists(fsys, JoinPath(parent, body))
                           THEN JoinPath(parent, body)
                           ELSE IF PathExists(fsys, JoinPath(parent, body \o MdSuffix))
                           THEN JoinPath(parent, body \o MdSuffix)
                           ELSE NoPath

Preparing == applied.fn = "prepare"

\* the packages prepare installs: the bundle's own base_path, then the paths
\* of source_base_paths that are set and differ from it, in order
ExpectedInstalls(bundle) ==
    (IF bundle.base_path # NoPath THEN <<bundle.base_path>> ELSE <<>>)
        \o [i \in 1..Len(SelectSeq(bundle.source_base_paths,
                                  LAMBDA item : item.path # NoPath /\ item.path # bundle.base_path))
              |-> SelectSeq(bundle.source_base_paths,
                            LAMBDA item : item.path # NoPath
                                            /\ item.path # bundle.base_path)[i].path]

EventsNamed(names) == SelectSeq(applied.events, LAMBDA event : event.name \in names)

\* C35: with install_deps every bundle package (the bundle's own base_path
\* first, then each path of source_base_paths that differs from it) has
\* been installed before the first module activation is invoked; without
\* install_deps no package is installed; source_resolver is called only for
\* specs that have a source, and the specs of the bundle are left as they
\* were.
Thm_C35_PackagesBeforeModules ==
    Preparing =>
        LET events == applied.events
            installs == EventsNamed({"install"})
            installed == EventsNamed({"installed"})
            expected == ExpectedInstalls(applied.bundle)
            specs == SpecsToActivate(applied.bundle)
        IN /\ ~applied.install_deps => installs = <<>>
           /\ Len(installs) <= Len(expected)
           /\ \A i \in 1..Len(installs) : installs[i].of = expected[i]
           /\ \A i \in 1..Len(events) :
                events[i].name \in {"activate", "activated"} =>
                    /\ \A j \in 1..Len(events) :
                          events[j].name \in {"install", "installed"} => j < i
                    /\ applied.install_deps =>
                          Len(installed) = Len(expected) /\ Len(installs) = Len(expected)
           /\ \A i \in 1..Len(applied.resolver_calls) :
                \E k \in 1..Len(specs) :
                    /\ "source" \in DOMAIN specs[k].items
                    /\ specs[k].items["source"] = applied.resolver_calls[i].source
                    /\ specs[k].items["module"] = applied.resolver_calls[i].module
           /\ applied.source_resolver = "none" => applied.resolver_calls = <<>>
           /\ applied.pc \in {"activate", "activating", "returned"} => applied.passed = specs

\* prepare has returned after installing two packages and activating a
\* module whose source the resolver has overridden
Wit_C35_TwoPackagesThenOverriddenModule ==
    /\ Preparing
    /\ applied.pc = "returned"
    /\ Len(EventsNamed({"installed"})) = 2
    /\ applied.bundle.base_path # NoPath
    /\ \E i \in 1..Len(applied.events) : applied.events[i] = Event("activated", <<"m1", "o1">>)
    /\ applied.modules # SpecsToActivate(applied.bundle)

(***************************************************************************)
(* Sibling loads and the cycle check                                       *)
(***************************************************************************)
\* the URIs a load of uri loads for the includes its bundle file declares,
\* with names and namespaces looked up in rows
IncludeTargets(uri, rows) ==
    IF FileOf(uri) \in DOMAIN world
    THEN LET includes == world[FileOf(uri)]
             sources == {parse_include(includes[i]) : i \in 1..Len(includes)} \ {NoRef}
             resolved == {resolve_include_source(rows, r) : r \in sources} \ {NoRef}
         IN {TargetUri(r, rows) : r \in resolved}
    ELSE {}

\* the include edges of uri, under the rows at the call and the rows now
IncludesOf(uri) == IncludeTargets(uri, ret.rows) \cup IncludeTargets(uri, registry)

MaxChain == Cardinality(KnownURIs) + 1

RECURSIVE IncludedFrom(_, _)
\* the URIs reached from uris along at most n further include edges
IncludedFrom(uris, n) ==
    IF n = 0 THEN uris
    ELSE IncludedFrom(uris \cup UNION {IncludesOf(u) : u \in uris}, n - 1)

\* the URIs a call can start from
RootURIs ==
    {u \in LoadTargets : u.kind = "file"} \cup KnownURIs
        \cup {registry[n].uri : n \in DOMAIN registry}
        \cup {ret.rows[n].uri : n \in DOMAIN ret.rows}

\* no bundle file read so far has includes that lead back to it
Acyclic ==
    \A u \in IncludedFrom(RootURIs, MaxChain) :
        u \notin IncludedFrom(IncludesOf(u), MaxChain)

\* a load of the call ended with the dependency-cycle error
CycleReported == \E t \in 1..Len(tasks) : tasks[t].exc = "BundleDependencyError"

\* C36 as stated: when the include graph among the loaded bundles is
\* acyclic no load raises the dependency-cycle error, load(None) with a
\* registered bundle that another registered bundle includes among them
Orig_C36_AcyclicNeverReportsCycle == Acyclic => ~CycleReported

(***************************************************************************)
(* The include graph on the rows                                           *)
(***************************************************************************)
\* a row's list, None read as no entry
Listed(list) == IF list = NoList THEN <<>> ELSE list

Entries(list) == {Listed(list)[i] : i \in 1..Len(Listed(list))}

NoDuplicate(list) == Cardinality(Entries(list)) = Len(Listed(list))

\* C37: after any sequence of register and load calls on a registry that
\* started empty, and at every await of a load, the include graph on the
\* rows is symmetric: for all row names p and c, c is in rows[p].includes
\* exactly when p is in rows[c].included_by, and no list holds a name twice
Thm_C37_IncludeGraphSymmetric ==
    /\ \A p, c \in DOMAIN registry :
          c \in Entries(registry[p].includes)
              <=> p \in Entries(registry[c].included_by)
    /\ \A n \in DOMAIN registry :
          NoDuplicate(registry[n].includes) /\ NoDuplicate(registry[n].included_by)

\* a second load of a bundle has returned to a registry whose rows already
\* held its include, and a register call came in between
Wit_C37_ReloadedAfterRegister ==
    /\ ret.kind = "load"
    /\ ret.status = "ok"
    /\ \E p, c \in DOMAIN ret.rows :
          /\ p # c
          /\ c \in Entries(ret.rows[p].includes)
          /\ c \in Entries(registry[p].includes)
          /\ p \in Entries(registry[c].included_by)
    /\ calls >= 3

(***************************************************************************)
(* spawn: the child session between initialize and execute                 *)
(***************************************************************************)
\* initialize() of the child session has returned: spawn went on to a
\* further call on the child
ChildInitialized ==
    \E i \in EventsOf("initialize") : i < Len(spawned.events)

\* C38 as stated: every child session that spawn has initialized is cleaned
\* up before spawn returns or raises, also when set_messages or the
\* installation of the system-prompt factory fails
Orig_C38_InitializedChildCleanedUp ==
    SpawnEnded /\ ChildInitialized => EventsOf("cleanup") # {}

==============================================================================
